---- MODULE Spec2Model ----
(***************************************************************************)
(* Model of the cortex market-alert backend (backend/app): the alert       *)
(* predicate, the periodic alert evaluator, the sector-strategy evaluator, *)
(* the vendor websocket streamer, the daily previous-close refresher, the  *)
(* upstream rate limiter and the worker's supervisor.                      *)
(*                                                                         *)
(* Numbers.  The code computes with Python floats.  The model uses exact   *)
(* integer arithmetic on scaled values: prices in cents, percentages in    *)
(* hundredths of a percent, times in tenths of a second.  A comparison the *)
(* code makes after a division is made here by cross-multiplication, so    *)
(* floating-point rounding is not modelled.                                *)
(*                                                                         *)
(* Optional values.  Python's None is the empty tuple, a present value v   *)
(* is the one-element tuple <<v>>.                                         *)
(***************************************************************************)
EXTENDS Integers, Sequences, FiniteSets, TLC

VARIABLES
    \* ---- Alert.check_condition applied to drawn inputs (SpecPred)
    p_alert_type, p_threshold, p_current, p_previous, p_done, p_result

predVars ==
    <<p_alert_type, p_threshold, p_current, p_previous, p_done, p_result>>

VARIABLES
    \* ---- the relational store, as the alert evaluator sees it (Spec)
    alerts,             \* alert id -> row of table alerts
    users,              \* user id -> row of table users
    notifications,      \* rows of table notifications, in insertion order
    email_log,          \* calls of notification_service.send_email, in order
    now,                \* datetime.utcnow(), one unit per tick
    \* ---- AlertEngine.check_alerts: its position and its locals
    ev_pc,              \* "idle", "fetch", "eval", "email"
    active_alerts,      \* the list the tick loaded
    live_prices,        \* the result of get_all_live_prices
    symbols_left,       \* symbols of symbols_list not yet looked up
    quotes,             \* symbol -> None or <<[c, pc]>>
    ev_i,               \* index in active_alerts of the next alert
    triggered_by_user,  \* list of <<user_id, list of alert ids>>
    triggered_count,
    ticks,              \* completed calls of check_alerts
    \* ---- history of the evaluator, for stating properties
    h_tick,             \* store when the latest tick loaded its alerts
    h_held,             \* some predicate held in the tick in progress
    h_quiet,            \* number of ticks just completed with no predicate held
    h_base              \* store at the start of that run of quiet ticks

VARIABLES
    \* ---- the sector strategies and AlertEngine.check_sector_strategies
    strategies,         \* strategy id -> row of table sector_strategies
    sector_stocks,      \* strategy id -> symbols of strategy.sector.stocks
    sec_pc,             \* "idle", "fetch", "eval"
    sec_active,         \* the list of active strategies the tick loaded
    sec_live,           \* the result of get_all_live_prices
    sec_symbols_left,   \* symbols of symbols_list not yet looked up
    sec_quotes,         \* symbol -> None or <<[c, pc]>>
    sec_i,              \* index in sec_active of the next strategy
    sec_count,          \* triggered_count
    sec_ticks,          \* completed calls of check_sector_strategies
    h_sec               \* history: the strategy just evaluated and the store before

VARIABLES
    \* ---- StockAPIService.rate_limiter, one per process (SpecLimiter)
    lim_level,          \* process -> level of its limiter's bucket
    lim_issued,         \* process -> HTTP requests its client has sent
    lim_clock,          \* seconds since the processes started
    \* ---- MarketStreamer.connect_and_stream (SpecStreamer)
    st_pc,              \* "top", "connect", "subscribe", "recv", "sleep"
    st_active_symbols,  \* self.active_symbols
    st_to_send,         \* symbols the subscribe loop has not reached yet
    st_sent,            \* subscribe frames sent on this connection, in order
    st_inbox,           \* frames the vendor sent that recv() has not returned
    st_live,            \* symbol -> latest price written by update_live_price
    st_connects,        \* connections opened so far
    h_st_wrote,         \* history: a live price was written on this connection
    st_added,           \* symbols whose rows were committed while the streamer was connected
    h_st_trades,        \* history: whether kept, and symbol -> its last trade received and its last priced one
    \* ---- DailyMaintenance and the previous-close keys (SpecRefresher)
    ref_pc,             \* "run", "fetch", "sleep", "done", "wait", "raised"
    ref_symbols,        \* `symbols` of the run in progress or just completed
    ref_left,           \* symbols the run has not reached yet
    ref_ok,             \* symbols the run in progress succeeded on
    ref_clock,          \* wall clock, tenths of a second since 00:00 of day 0
    ref_target,         \* the time run_forever sleeps until
    ref_jumps,          \* clock jumps taken while the job sleeps, wake-ups included
    prev_cache,         \* symbol -> None or <<[value, expires_at]>>
    h_ref_done,         \* history: None or <<[at, ok]>> of the latest completed run
    h_ref_attempts,     \* history: symbol -> iterations of this run's loop on it
    \* ---- main_async and its three loops (SpecSupervisor)
    sup_task,           \* loop -> "running", "failed", "cancelled"
    sup_cycles,         \* loop -> cycles completed
    sup_caught,         \* loop -> exceptions caught by the loop's own handler
    sup_main,           \* main_async: "running" or "raised"
    sup_day,            \* day of the month of datetime.now()
    sup_days_in_month,
    sup_before_six,     \* datetime.now() is before 06:00 of its day
    sup_api_key         \* settings.FINNHUB_API_KEY

VARIABLES
    \* ---- MarketStreamer.get_top_symbols as a function of the database (SpecTop)
    top_pc,             \* "call", "truncate", "returned"
    top_alert_symbols,  \* symbols of the active alerts
    top_sector_symbols, \* symbols of the sector stocks
    top_symbols,        \* the local `symbols`
    top_returned        \* the set get_top_symbols returned

VARIABLES
    \* ---- the live-price keys of the cache and the ticks reading them (SpecLive)
    lv_pc,              \* check_alerts: "idle", "quotes", "eval"
    lv_clock,           \* tenths of a second since the worker started
    lv_cache,           \* symbol -> None or <<[price, written_at]>>
    lv_live_prices,     \* what get_all_live_prices returned to this tick
    lv_left,            \* symbols the loop building `quotes` has not reached
    lv_quotes,          \* symbol -> None or <<[c, live_written_at]>>
    lv_eval_left,       \* symbols whose alerts this tick has not evaluated
    lv_ticks,           \* ticks completed
    lv_jumps,           \* waits between ticks so far
    h_lv_used           \* history: None or <<[symbol, age]>>, the live price last used

VARIABLES
    \* ---- one MarketDataCache operation at a time over the store (SpecCache)
    mc_pc,              \* "idle", "called", "returned", "raised"
    mc_op,              \* None or <<[name, symbols, price]>>, the call in progress
    mc_raises,          \* the backend raises during this call
    mc_store,           \* [live, prev]: symbol -> None or <<price>>
    mc_result,          \* what the call returned
    mc_calls,           \* calls completed
    h_mc_before         \* history: the store when the call started

VARIABLES
    \* ---- StockAPIService, one call at a time (SpecApi)
    api_pc,             \* "idle", "fetching", "returned", "raised"
    api_call,           \* None or <<[method, symbol]>>, the call in progress
    api_result,         \* the value the call returned
    api_clock,          \* time.time(), in seconds
    api_profile_cache,  \* self._profile_cache: key -> None or <<[at, data]>>
    api_financials_cache, \* self._financials_cache, likewise
    api_requests,       \* HTTP requests sent
    api_permits,        \* permits taken from self.rate_limiter
    api_calls,          \* calls completed
    api_jumps,          \* passages of time so far
    h_api_response      \* history: None or <<response>> the call in progress received

VARIABLES
    \* ---- StockAPIService.get_multiple_quotes (SpecFanout)
    mq_pc,              \* "idle", "gather", "returned"
    mq_symbols,         \* the list the caller passed
    mq_pending,         \* indexes of the get_quote tasks still running
    mq_quotes,          \* index -> what that task's get_quote returned
    mq_results,         \* the map get_multiple_quotes returned
    h_mq_responses      \* history: index -> the response that task received

VARIABLES
    \* ---- the quote-building loop of both evaluators (SpecFallback)
    fb_pc,              \* "off", "idle", "loop"
    fb_evaluator,       \* the evaluator of the tick in progress or just ended
    fb_loaded,          \* how many active alerts or strategies that tick loaded
    fb_symbols,         \* its symbols_list
    fb_left,            \* the symbols the loop has not reached yet
    fb_live_prices,     \* what get_all_live_prices returned
    fb_quotes,          \* the quotes dictionary
    fb_clock,           \* tenths of a second since the tick began
    fb_ticks,           \* ticks ended so far
    h_fb_reads,         \* history: cache reads the tick made
    h_fb_seen,          \* history: symbol -> the c and pc the loop read for it
    h_fb_calls          \* history: the get_quote calls of the tick, in order

VARIABLES
    \* ---- the pacing of one daily-refresh run (SpecPacing)
    pace_pc,            \* "off", "run", "fetch", "sleep", "done"
    pace_left,          \* how many symbols the loop has not reached yet
    h_pace_since,       \* history: None or <<time since the last get_quote began>>
    h_pace_failed,      \* history: the last get_quote raised or returned None
    h_pace_spacing,     \* history: None or <<the time between the last two calls,
                        \*          and whether the earlier one failed>>
    h_pace_window       \* history: None or <<a window an observer opened at a call>>

VARIABLES
    \* ---- check_alerts_task, one tick after another (SpecChecker)
    ck_pc,              \* "off", "top", "alerts", "sectors", "sleep", "cancelled"
    ck_sessions,        \* database sessions the task holds open
    ck_ticks,           \* ticks begun so far
    h_ck_ticks          \* history: how each tick's session and evaluators went

VARIABLES
    \* ---- check_alerts over a database whose writes may fail (SpecTrigger)
    tg_pc,              \* "off", "idle", "loop", "done"
    tg_held,            \* alert -> whether its condition holds in this tick
    tg_i,               \* the alert the loop over active_alerts is at
    tg_rows,            \* the database: alert -> its committed status and stamps
    tg_notified,        \* the database: alerts with a committed in-app row
    tg_session,         \* "ok", or "needs_rollback" after a failed flush
    tg_count,           \* triggered_count
    tg_batch,           \* the alerts appended to triggered_by_user
    h_tg_fault          \* history: alert -> the fault injected in its iteration

VARIABLES
    \* ---- the REST handlers of api/alerts.py beside a tick of check_alerts (SpecRest)
    rest_alerts,        \* alert id -> row of table alerts, the rows of one user
    rest_next_id,       \* the id the next INSERT is given
    rest_passed,        \* calls of create_alert past the limit check, not yet committed
    rest_pc,            \* check_alerts: "idle", "eval"
    rest_loaded,        \* the list active_alerts of the tick in progress
    rest_i,             \* index in rest_loaded of the next alert
    rest_notifications, \* ids of the alerts that have an in-app row
    rest_ticks,         \* completed calls of check_alerts
    h_rest_fired        \* history: the status each _trigger_alert that committed found in the alert's row

limVars == <<lim_level, lim_issued, lim_clock>>

topVars ==
    <<top_pc, top_alert_symbols, top_sector_symbols, top_symbols, top_returned>>

\* Components that run on their own beside the four worker loops.
liveVars ==
    <<lv_pc, lv_clock, lv_cache, lv_live_prices, lv_left, lv_quotes, lv_eval_left,
      lv_ticks, lv_jumps, h_lv_used>>

mcVars == <<mc_pc, mc_op, mc_raises, mc_store, mc_result, mc_calls, h_mc_before>>

apiVars ==
    <<api_pc, api_call, api_result, api_clock, api_profile_cache,
      api_financials_cache, api_requests, api_permits, api_calls, api_jumps,
      h_api_response>>

mqVars == <<mq_pc, mq_symbols, mq_pending, mq_quotes, mq_results, h_mq_responses>>

fbVars ==
    <<fb_pc, fb_evaluator, fb_loaded, fb_symbols, fb_left, fb_live_prices,
      fb_quotes, fb_clock, fb_ticks, h_fb_reads, h_fb_seen, h_fb_calls>>

paceVars ==
    <<pace_pc, pace_left, h_pace_since, h_pace_failed, h_pace_spacing, h_pace_window>>

ckVars == <<ck_pc, ck_sessions, ck_ticks, h_ck_ticks>>

tgVars ==
    <<tg_pc, tg_held, tg_i, tg_rows, tg_notified, tg_session, tg_count, tg_batch,
      h_tg_fault>>

restVars ==
    <<rest_alerts, rest_next_id, rest_passed, rest_pc, rest_loaded, rest_i,
      rest_notifications, rest_ticks, h_rest_fired>>

extVars == <<topVars, liveVars, mcVars, apiVars, mqVars, fbVars, paceVars, ckVars, tgVars, restVars>>

stVars ==
    <<st_pc, st_active_symbols, st_to_send, st_sent, st_inbox, st_live,
      st_connects, h_st_wrote, h_st_trades, st_added>>

refVars ==
    <<ref_pc, ref_left, ref_ok, ref_clock, ref_target, ref_jumps, prev_cache,
      h_ref_done, ref_symbols, h_ref_attempts>>

supVars ==
    <<sup_task, sup_cycles, sup_caught, sup_main, sup_day, sup_days_in_month,
      sup_before_six, sup_api_key>>

workerVars == <<limVars, stVars, refVars, supVars, extVars>>

storeVars == <<alerts, users, notifications, email_log, now>>

sectorVars ==
    <<strategies, sector_stocks, sec_pc, sec_active, sec_live, sec_symbols_left,
      sec_quotes, sec_i, sec_count, sec_ticks, h_sec>>

evalVars ==
    <<ev_pc, active_alerts, live_prices, symbols_left, quotes, ev_i,
      triggered_by_user, triggered_count, ticks>>

histVars == <<h_tick, h_held, h_quiet, h_base>>

vars == <<predVars, storeVars, evalVars, histVars, sectorVars, workerVars>>

(***************************************************************************)
(* Optional values and Python truthiness                                   *)
(***************************************************************************)
None == <<>>

Some(v) == <<v>>

Val(x) == x[1]

\* Python's `if x:` for an Optional[float]: None and 0 are false.
Truthy(x) == x # None /\ Val(x) # 0

Abs(n) == IF n < 0 THEN -n ELSE n

(***************************************************************************)
(* models/alert.py                                                         *)
(***************************************************************************)
PRICE_ABOVE == "price_above"

PRICE_BELOW == "price_below"

PERCENT_CHANGE == "percent_change"

VOLUME_SPIKE == "volume_spike"

AlertType == {PRICE_ABOVE, PRICE_BELOW, PERCENT_CHANGE, VOLUME_SPIKE}

ACTIVE == "active"

TRIGGERED == "triggered"

DISABLED == "disabled"

AlertStatus == {ACTIVE, TRIGGERED, DISABLED}

\* abs(((current - previous) / previous) * 100) >= threshold, for previous # 0.
\* Prices are in cents and the threshold in hundredths of a percent, so the
\* percentage in threshold units is |current - previous| * 10000 / |previous|.
PercentChangeAtLeast(current, previous, threshold) ==
    Abs(current - previous) * 10000 >= threshold * Abs(previous)

check_conditionMutStrict(alert_type, threshold, current_price, previous_price) ==
    IF alert_type = PRICE_ABOVE THEN current_price > threshold
    ELSE IF alert_type = PRICE_BELOW THEN current_price < threshold
    ELSE IF alert_type = PERCENT_CHANGE /\ Truthy(previous_price)
         THEN PercentChangeAtLeast(current_price, Val(previous_price), threshold)
    ELSE FALSE

check_conditionMutVolume(alert_type, threshold, current_price, previous_price) ==
    IF alert_type = PRICE_ABOVE THEN current_price >= threshold
    ELSE IF alert_type = PRICE_BELOW THEN current_price <= threshold
    ELSE IF alert_type = PERCENT_CHANGE /\ Truthy(previous_price)
         THEN PercentChangeAtLeast(current_price, Val(previous_price), threshold)
    ELSE alert_type = VOLUME_SPIKE

\* Alert.check_condition(self, current_price, previous_price)
check_condition(alert_type, threshold, current_price, previous_price) ==
    IF alert_type = PRICE_ABOVE THEN current_price >= threshold
    ELSE IF alert_type = PRICE_BELOW THEN current_price <= threshold
    ELSE IF alert_type = PERCENT_CHANGE /\ Truthy(previous_price)
         THEN PercentChangeAtLeast(current_price, Val(previous_price), threshold)
    ELSE FALSE

(***************************************************************************)
(* The state of a component that a specification leaves out: its           *)
(* variables stay at these values for the whole run.                       *)
(***************************************************************************)
LimIdle ==
    /\ lim_level = <<>>
    /\ lim_issued = <<>>
    /\ lim_clock = 0

StIdle ==
    /\ st_pc = "off"
    /\ st_active_symbols = {}
    /\ st_to_send = {}
    /\ st_sent = <<>>
    /\ st_inbox = <<>>
    /\ st_live = <<>>
    /\ st_connects = 0
    /\ h_st_wrote = FALSE
    /\ h_st_trades = [on |-> FALSE, seen |-> <<>>]
    /\ st_added = {}

RefIdle ==
    /\ ref_pc = "off"
    /\ ref_left = {}
    /\ ref_ok = {}
    /\ ref_clock = 0
    /\ ref_target = 0
    /\ ref_jumps = 0
    /\ prev_cache = <<>>
    /\ h_ref_done = None
    /\ ref_symbols = {}
    /\ h_ref_attempts = <<>>

SupIdle ==
    /\ sup_task = <<>>
    /\ sup_cycles = <<>>
    /\ sup_caught = <<>>
    /\ sup_main = "off"
    /\ sup_day = 0
    /\ sup_days_in_month = 0
    /\ sup_before_six = FALSE
    /\ sup_api_key = ""

TopIdle ==
    /\ top_pc = "off"
    /\ top_alert_symbols = {}
    /\ top_sector_symbols = {}
    /\ top_symbols = {}
    /\ top_returned = {}

LiveIdle ==
    /\ lv_pc = "off"
    /\ lv_clock = 0
    /\ lv_cache = <<>>
    /\ lv_live_prices = <<>>
    /\ lv_left = {}
    /\ lv_quotes = <<>>
    /\ lv_eval_left = {}
    /\ lv_ticks = 0
    /\ lv_jumps = 0
    /\ h_lv_used = None

McIdle ==
    /\ mc_pc = "off"
    /\ mc_op = None
    /\ mc_raises = FALSE
    /\ mc_store = <<>>
    /\ mc_result = None
    /\ mc_calls = 0
    /\ h_mc_before = <<>>

ApiIdle ==
    /\ api_pc = "off"
    /\ api_call = None
    /\ api_result = None
    /\ api_clock = 0
    /\ api_profile_cache = <<>>
    /\ api_financials_cache = <<>>
    /\ api_requests = 0
    /\ api_permits = 0
    /\ api_calls = 0
    /\ api_jumps = 0
    /\ h_api_response = None

MqIdle ==
    /\ mq_pc = "off"
    /\ mq_symbols = <<>>
    /\ mq_pending = {}
    /\ mq_quotes = <<>>
    /\ mq_results = <<>>
    /\ h_mq_responses = <<>>

FbIdle ==
    /\ fb_pc = "off"
    /\ fb_evaluator = ""
    /\ fb_loaded = 0
    /\ fb_symbols = {}
    /\ fb_left = {}
    /\ fb_live_prices = <<>>
    /\ fb_quotes = <<>>
    /\ fb_clock = 0
    /\ fb_ticks = 0
    /\ h_fb_reads = 0
    /\ h_fb_seen = <<>>
    /\ h_fb_calls = <<>>

PaceIdle ==
    /\ pace_pc = "off"
    /\ pace_left = 0
    /\ h_pace_since = <<>>
    /\ h_pace_failed = FALSE
    /\ h_pace_spacing = <<>>
    /\ h_pace_window = <<>>

CkIdle ==
    /\ ck_pc = "off"
    /\ ck_sessions = 0
    /\ ck_ticks = 0
    /\ h_ck_ticks = <<>>

TgIdle ==
    /\ tg_pc = "off"
    /\ tg_held = <<>>
    /\ tg_i = 0
    /\ tg_rows = <<>>
    /\ tg_notified = {}
    /\ tg_session = "ok"
    /\ tg_count = 0
    /\ tg_batch = {}
    /\ h_tg_fault = <<>>

RestIdle ==
    /\ rest_alerts = <<>>
    /\ rest_next_id = 1
    /\ rest_passed = 0
    /\ rest_pc = "idle"
    /\ rest_loaded = <<>>
    /\ rest_i = 0
    /\ rest_notifications = {}
    /\ rest_ticks = 0
    /\ h_rest_fired = {}

ExtIdle == TopIdle /\ LiveIdle /\ McIdle /\ ApiIdle /\ MqIdle /\ FbIdle /\ PaceIdle /\ CkIdle /\ TgIdle /\ RestIdle

WorkerIdle == LimIdle /\ StIdle /\ RefIdle /\ SupIdle /\ ExtIdle

PredIdle ==
    /\ p_alert_type = PRICE_ABOVE
    /\ p_threshold = 0
    /\ p_current = 0
    /\ p_previous = None
    /\ p_done = FALSE
    /\ p_result = FALSE

SectorIdle ==
    /\ strategies = <<>>
    /\ sector_stocks = <<>>
    /\ sec_pc = "off"
    /\ sec_active = <<>>
    /\ sec_live = <<>>
    /\ sec_symbols_left = {}
    /\ sec_quotes = <<>>
    /\ sec_i = 0
    /\ sec_count = 0
    /\ sec_ticks = 0
    /\ h_sec = <<>>

StoreIdle ==
    /\ alerts = <<>>
    /\ users = <<>>
    /\ notifications = <<>>
    /\ email_log = <<>>
    /\ now = 0

EvalIdle ==
    /\ ev_pc = "off"
    /\ active_alerts = <<>>
    /\ live_prices = <<>>
    /\ symbols_left = {}
    /\ quotes = <<>>
    /\ ev_i = 0
    /\ triggered_by_user = <<>>
    /\ triggered_count = 0
    /\ ticks = 0
    /\ h_tick = <<>>
    /\ h_held = FALSE
    /\ h_quiet = 0
    /\ h_base = <<>>


(***************************************************************************)
(* SpecPred: check_condition on inputs drawn from bounded sets             *)
(***************************************************************************)
\* Thresholds (> 0): 2.00 (percent, or dollars), 98.00, 100.00.
PredThresholds == {200, 9800, 10000}

\* Current prices (> 0), in cents: 98.00, 98.01, 100.00, 102.00.
PredCurrents == {9800, 9801, 10000, 10200}

\* Previous closes: absent, zero, negative, and positive values.
PredPrevious == {None, Some(0), Some(-10000), Some(5000), Some(10000)}

PredInit ==
    /\ p_alert_type \in AlertType
    /\ p_threshold \in PredThresholds
    /\ p_current \in PredCurrents
    /\ p_previous \in PredPrevious
    /\ p_done = FALSE
    /\ p_result = FALSE
    /\ StoreIdle
    /\ EvalIdle
    /\ SectorIdle
    /\ WorkerIdle

\* One call alert.check_condition(current_price, previous_close).
PredEvaluate ==
    /\ ~p_done
    /\ p_done' = TRUE
    /\ p_result' = check_condition(p_alert_type, p_threshold, p_current, p_previous)
    /\ UNCHANGED <<p_alert_type, p_threshold, p_current, p_previous>>
    /\ UNCHANGED <<storeVars, evalVars, histVars, sectorVars, workerVars>>

PredNext == PredEvaluate

SpecPred == PredInit /\ [][PredNext]_vars

\* C6: for every threshold > 0 and current > 0, whatever the previous close,
\* a price_above alert's condition holds iff current >= threshold and a
\* price_below alert's condition holds iff current <= threshold.
C6_PriceThreshold ==
    (p_done /\ p_threshold > 0 /\ p_current > 0) =>
        /\ p_alert_type = PRICE_ABOVE => (p_result <=> p_current >= p_threshold)
        /\ p_alert_type = PRICE_BELOW => (p_result <=> p_current <= p_threshold)

\* Equality triggers, for both kinds and with the previous close absent.
C6_Witness ==
    /\ p_done
    /\ p_result = TRUE
    /\ p_alert_type \in {PRICE_ABOVE, PRICE_BELOW}
    /\ p_current = p_threshold
    /\ p_previous = None

\* C7 (as claimed): a percent_change alert's condition holds iff
\* prev_close > 0 and |100 * (current - prev_close) / prev_close| >= threshold;
\* with prev_close absent, zero or not positive it is false.
C7_PercentChange ==
    (p_done /\ p_alert_type = PERCENT_CHANGE /\ p_current > 0) =>
        (p_result <=>
            /\ p_previous # None
            /\ Val(p_previous) > 0
            /\ Abs(p_current - Val(p_previous)) * 10000
                   >= p_threshold * Val(p_previous))

(***************************************************************************)
(* services/alert_engine.py: AlertEngine.check_alerts                      *)
(***************************************************************************)
\* Bounds of the evaluator's world.
NumAlerts == 2

MaxTicks == 2

AlertIds == 1..NumAlerts

UserIds == {1, 2}

Symbols == {"AAPL", "TSLA"}

\* Live prices in cents: 98.00.
Prices == {9800}

\* What get_all_live_prices can hold for a symbol: absent, or a live price.
LiveReads == {None} \cup {Some(p) : p \in Prices}

\* What get_previous_close can return: absent, or yesterday's close 100.00.
PrevReads == {None, Some(10000)}

\* What stock_api.get_quote can return: None (an error, or c = 0), or the
\* vendor's payload, whose fields c and pc may be missing or pc zero: a quote
\* at 102.00 with a zero previous close, and one without a current price.
UpstreamQuotes ==
    {None,
     Some([c |-> Some(10200), pc |-> Some(0)]),
     Some([c |-> None, pc |-> Some(10000)])}

\* The threshold a drawn alert of each kind carries: 100.00 for the price
\* kinds, 2.00 percent for the others.
ThresholdOf(alert_type) ==
    IF alert_type \in {PRICE_ABOVE, PRICE_BELOW} THEN 10000 ELSE 200

IN_APP == "in_app"

EMAIL == "email"

Range(s) == {s[i] : i \in DOMAIN s}

\* The ids, in id order, of the rows of tbl from i on with a status in statuses.
RECURSIVE IdsWithStatus(_, _, _)
IdsWithStatus(tbl, i, statuses) ==
    IF i > NumAlerts THEN <<>>
    ELSE IF tbl[i].status \in statuses
         THEN <<i>> \o IdsWithStatus(tbl, i + 1, statuses)
         ELSE IdsWithStatus(tbl, i + 1, statuses)

LoadActiveMutAll(tbl) == IdsWithStatus(tbl, 1, {ACTIVE, TRIGGERED})

\* db.query(Alert).filter(Alert.status == AlertStatus.ACTIVE).all()
LoadActive(tbl) == IdsWithStatus(tbl, 1, {ACTIVE})

\* The in-app Notification row _trigger_alert inserts.
InAppNotificationMutThreshold(a, current_price) ==
    [user_id |-> alerts[a].user_id,
     alert_id |-> a,
     channel |-> IN_APP,
     symbol |-> alerts[a].symbol,
     trigger_price |-> alerts[a].threshold_value,
     alert_type |-> alerts[a].alert_type,
     threshold_value |-> alerts[a].threshold_value,
     is_read |-> FALSE,
     email_sent_at |-> None,
     created_at |-> now]

InAppNotification(a, current_price) ==
    [user_id |-> alerts[a].user_id,
     alert_id |-> a,
     channel |-> IN_APP,
     symbol |-> alerts[a].symbol,
     trigger_price |-> current_price,
     alert_type |-> alerts[a].alert_type,
     threshold_value |-> alerts[a].threshold_value,
     is_read |-> FALSE,
     email_sent_at |-> None,
     created_at |-> now]

\* The alert row after _trigger_alert's assignments.
TriggeredRowMutOnce(row, current_price) ==
    [row EXCEPT !.triggered_at = Some(now),
                !.trigger_price = Some(current_price),
                !.status = TRIGGERED]

TriggeredRow(row, current_price) ==
    [row EXCEPT !.triggered_at = Some(now),
                !.trigger_price = Some(current_price),
                !.status = IF row.is_repeating THEN row.status ELSE TRIGGERED]

\* The alert row after `alert.last_checked_at = datetime.utcnow()`.
CheckedRowMutStamp(row) ==
    [row EXCEPT !.last_checked_at = Some(now), !.triggered_at = Some(now)]

CheckedRow(row) == [row EXCEPT !.last_checked_at = Some(now)]

\* triggered_by_user[user_id].append(entry): a dict in insertion order.
AppendTriggeredMutSplit(tbu, u, a) == Append(tbu, <<u, <<a>>>>)

AppendTriggered(tbu, u, a) ==
    IF \E k \in DOMAIN tbu : tbu[k][1] = u
    THEN [k \in DOMAIN tbu |->
            IF tbu[k][1] = u THEN <<u, Append(tbu[k][2], a)>> ELSE tbu[k]]
    ELSE Append(tbu, <<u, <<a>>>>)

\* The store at a moment, without the fields a check may stamp.
StoreView ==
    [alerts |-> [a \in AlertIds |-> [alerts[a] EXCEPT !.last_checked_at = None]],
     notifications |-> notifications,
     email_log |-> email_log]

\* check_alerts returns: its locals are gone.
EvalReturn ==
    /\ ev_pc' = "idle"
    /\ active_alerts' = <<>>
    /\ live_prices' = <<>>
    /\ symbols_left' = {}
    /\ quotes' = <<>>
    /\ ev_i' = 0
    /\ triggered_by_user' = <<>>
    /\ triggered_count' = 0
    /\ ticks' = ticks + 1

\* The history at a return: a tick with no predicate held extends the quiet run.
HistReturn(held) ==
    /\ h_held' = FALSE
    /\ h_quiet' = IF held THEN 0 ELSE h_quiet + 1
    /\ UNCHANGED <<h_tick, h_base>>

\* check_alerts, lines 146-158: load the active alerts, return if there are
\* none, else read the live prices of their symbols in one MGET.
TickLoad ==
    /\ ev_pc = "idle"
    /\ ticks < MaxTicks
    /\ now' = now + 1
    /\ h_tick' = StoreView
    /\ h_base' = IF h_quiet = 0 THEN StoreView ELSE h_base
    /\ LET loaded == LoadActive(alerts)
           syms == {alerts[a].symbol : a \in Range(loaded)}
       IN IF loaded = <<>>
          THEN /\ EvalReturn
               /\ h_held' = FALSE
               /\ h_quiet' = h_quiet + 1
          ELSE /\ active_alerts' = loaded
               /\ symbols_left' = syms
               /\ \E lp \in [syms -> LiveReads] : live_prices' = lp
               /\ quotes' = [s \in syms |-> None]
               /\ ev_pc' = "fetch"
               /\ h_held' = FALSE
               /\ UNCHANGED <<ev_i, triggered_by_user, triggered_count, ticks,
                              h_quiet>>
    /\ UNCHANGED <<alerts, users, notifications, email_log>>
    /\ UNCHANGED <<predVars, sectorVars, workerVars>>

\* The place of a symbol in symbols_list = list(symbols_to_check): Python fixes
\* no order for it; the model takes one.
SymbolIndex(s) == IF s = "AAPL" THEN 1 ELSE 2

\* check_alerts, lines 162-175: one iteration of the loop over symbols_list.
\* live_prices is not read after the loop; the model drops it there.
FetchQuote(s) ==
    /\ ev_pc = "fetch"
    /\ s \in symbols_left
    /\ \A o \in symbols_left : SymbolIndex(s) <= SymbolIndex(o)
    /\ symbols_left' = symbols_left \ {s}
    /\ \E pc \in PrevReads :
         LET c == live_prices[s]
         IN IF c = None \/ pc = None
            THEN \E quote \in UpstreamQuotes :
                   quotes' = IF quote # None
                             THEN [quotes EXCEPT ![s] =
                                     Some([c |-> Val(quote).c, pc |-> Val(quote).pc])]
                             ELSE quotes
            ELSE quotes' = [quotes EXCEPT ![s] = Some([c |-> c, pc |-> pc])]
    /\ IF symbols_left' = {}
       THEN ev_pc' = "eval" /\ ev_i' = 1 /\ live_prices' = <<>>
       ELSE UNCHANGED <<ev_pc, ev_i, live_prices>>
    /\ UNCHANGED <<active_alerts, triggered_by_user, triggered_count, ticks>>
    /\ UNCHANGED <<storeVars, histVars, predVars, sectorVars, workerVars>>

\* Lines 183-192: the loop body goes past `if not quote: continue` and
\* `if not current_price: continue`.
Examined(quote) == quote # None /\ Truthy(Val(quote).c)

\* The alert row after a `continue` of lines 185-192.
SkippedRowMutStamp(row) == [row EXCEPT !.last_checked_at = Some(now)]

SkippedRow(row) == row

\* Whether the loop body of lines 181-213 reaches check_condition for alert a
\* and finds it true.
Held(a) ==
    LET quote == quotes[alerts[a].symbol]
    IN /\ Examined(quote)
       /\ check_condition(alerts[a].alert_type, alerts[a].threshold_value,
                          Val(Val(quote).c), Val(quote).pc)

\* check_alerts, lines 181-213 and _trigger_alert: one iteration of the loop
\* over active_alerts.  After the last one the loop over triggered_by_user
\* starts; with nothing triggered it is empty and check_alerts returns.
EvalAlert ==
    /\ ev_pc = "eval"
    /\ ev_i <= Len(active_alerts)
    /\ LET a == active_alerts[ev_i]
           quote == quotes[alerts[a].symbol]
           last == ev_i = Len(active_alerts)
           examined == Examined(quote)
           held == Held(a)
           current_price == Val(Val(quote).c)
           tbu == IF held
                  THEN AppendTriggered(triggered_by_user, alerts[a].user_id, a)
                  ELSE triggered_by_user
       IN /\ alerts' =
               IF ~examined THEN [alerts EXCEPT ![a] = SkippedRow(alerts[a])]
               ELSE IF held
                    THEN [alerts EXCEPT
                            ![a] = CheckedRow(TriggeredRow(alerts[a], current_price))]
                    ELSE [alerts EXCEPT ![a] = CheckedRow(alerts[a])]
          /\ notifications' =
               IF held
               THEN Append(notifications, InAppNotification(a, current_price))
               ELSE notifications
          /\ IF last /\ tbu = <<>>
             THEN /\ EvalReturn
                  /\ HistReturn(h_held \/ held)
             ELSE /\ triggered_by_user' = tbu
                  /\ triggered_count' = triggered_count + (IF held THEN 1 ELSE 0)
                  /\ ev_i' = IF last THEN 0 ELSE ev_i + 1
                  /\ ev_pc' = IF last THEN "email" ELSE "eval"
                  /\ h_held' = (h_held \/ held)
                  /\ UNCHANGED <<active_alerts, live_prices, symbols_left,
                                 quotes, ticks, h_tick, h_quiet, h_base>>
    /\ UNCHANGED <<users, email_log, now>>
    /\ UNCHANGED <<predVars, sectorVars, workerVars>>

\* The email Notification row _send_batched_email inserts for alert a.
EmailNotification(u, a, sent) ==
    [user_id |-> u,
     alert_id |-> a,
     channel |-> EMAIL,
     symbol |-> alerts[a].symbol,
     trigger_price |-> Val(alerts[a].trigger_price),
     alert_type |-> alerts[a].alert_type,
     threshold_value |-> alerts[a].threshold_value,
     is_read |-> TRUE,
     email_sent_at |-> IF sent THEN Some(now) ELSE None,
     created_at |-> now]

RECURSIVE EmailRows(_, _, _)
EmailRows(u, ids, sent) ==
    IF ids = <<>> THEN <<>>
    ELSE <<EmailNotification(u, Head(ids), sent)>> \o EmailRows(u, Tail(ids), sent)

\* Attempts before send_email's first success, or 0 when all three fail.
SendOutcomes == {0, 1, 2, 3}

\* `for attempt in range(3)` with its `if email_sent: break`: what the calls
\* of send_email returned, in order, when the k-th is the first to succeed.
SendCallsMutNoBreak(k) == [i \in 1 .. 3 |-> i = k]

SendCalls(k) == [i \in 1 .. (IF k = 0 THEN 3 ELSE k) |-> i = k]

\* check_alerts, lines 220-221 and _send_batched_email: one iteration of the
\* loop over triggered_by_user.  After the last one check_alerts returns.
SendBatchedEmail ==
    /\ ev_pc = "email"
    /\ triggered_by_user # <<>>
    /\ LET u == Head(triggered_by_user)[1]
           alerts_data == Head(triggered_by_user)[2]
           email_alerts == SelectSeq(alerts_data, LAMBDA a : alerts[a].notify_email)
           rest == Tail(triggered_by_user)
       IN /\ IF users[u].email_notifications /\ email_alerts # <<>>
             THEN \E k \in SendOutcomes :
                    LET calls == SendCalls(k)
                        email_sent == calls[Len(calls)]
                    IN /\ email_log' =
                            Append(email_log,
                                   [user_id |-> u,
                                    attempts |-> Len(calls),
                                    sent |-> email_sent,
                                    alert_ids |-> email_alerts,
                                    calls |-> calls,
                                    at |-> now])
                       /\ notifications' =
                            notifications \o EmailRows(u, email_alerts, email_sent)
             ELSE UNCHANGED <<email_log, notifications>>
          /\ IF rest = <<>>
             THEN /\ EvalReturn
                  /\ HistReturn(h_held)
             ELSE /\ triggered_by_user' = rest
                  /\ UNCHANGED <<ev_pc, active_alerts, live_prices, symbols_left,
                                 quotes, ev_i, triggered_count, ticks>>
                  /\ UNCHANGED histVars
    /\ UNCHANGED <<alerts, users, now>>
    /\ UNCHANGED <<predVars, sectorVars, workerVars>>

(***************************************************************************)
(* Spec: the alert evaluator's ticks over a drawn table of alerts          *)
(***************************************************************************)
\* A new row of table alerts, as create_alert inserts it.
NewAlert(u, s, ty, r, ne) ==
    [user_id |-> u, symbol |-> s, alert_type |-> ty,
     threshold_value |-> ThresholdOf(ty), status |-> ACTIVE, is_repeating |-> r,
     notify_email |-> ne, last_checked_at |-> None, triggered_at |-> None,
     trigger_price |-> None]

\* The drawn tables: every alert of user 1, alerts 1 and 2 on AAPL and any
\* further one on TSLA, of any kind whose condition can hold, repeating or
\* not; alert 1 asks for email, the others do not.  The tables with a
\* volume_spike alert are those of SpecVolume.
SymbolOf(a) == IF a <= 2 THEN "AAPL" ELSE "TSLA"

AlertTables ==
    {[a \in AlertIds |-> NewAlert(1, SymbolOf(a), ty[a], r[a], a = 1)] :
        ty \in [AlertIds -> AlertType \ {VOLUME_SPIKE}], r \in [AlertIds -> BOOLEAN]}

Init ==
    /\ alerts \in AlertTables
    /\ users = [u \in UserIds |-> [email_notifications |-> u = 1]]
    /\ notifications = <<>>
    /\ email_log = <<>>
    /\ now = 0
    /\ ev_pc = "idle"
    /\ active_alerts = <<>>
    /\ live_prices = <<>>
    /\ symbols_left = {}
    /\ quotes = <<>>
    /\ ev_i = 0
    /\ triggered_by_user = <<>>
    /\ triggered_count = 0
    /\ ticks = 0
    /\ h_tick = <<>>
    /\ h_held = FALSE
    /\ h_quiet = 0
    /\ h_base = <<>>
    /\ PredIdle
    /\ SectorIdle
    /\ WorkerIdle

Next ==
    \/ TickLoad
    \/ \E s \in Symbols : FetchQuote(s)
    \/ EvalAlert
    \/ SendBatchedEmail

Spec == Init /\ [][Next]_vars

(***************************************************************************)
(* Properties of the alert evaluator                                       *)
(***************************************************************************)
\* The notifications of a list that refer to alert a.
NotificationsOf(ns, a) == SelectSeq(ns, LAMBDA n : n.alert_id = a)

\* C1: once a non-repeating alert has status triggered, no later tick of
\* check_alerts inserts a Notification (in-app or email) for it or changes its
\* triggered_at or trigger_price, whatever prices the tick sees; and a tick
\* only evaluates alerts that were active when it loaded them.
C1_NoRetrigger ==
    h_tick # <<>> =>
        /\ \A a \in AlertIds :
             (h_tick.alerts[a].status = TRIGGERED /\ ~h_tick.alerts[a].is_repeating) =>
                /\ NotificationsOf(notifications, a)
                     = NotificationsOf(h_tick.notifications, a)
                /\ alerts[a].triggered_at = h_tick.alerts[a].triggered_at
                /\ alerts[a].trigger_price = h_tick.alerts[a].trigger_price
                /\ alerts[a].status = TRIGGERED
        /\ \A a \in Range(active_alerts) : h_tick.alerts[a].status = ACTIVE

\* A later tick is evaluating alerts, a non-repeating alert was already
\* triggered when it loaded, and the quote of that alert's symbol satisfies the
\* alert's condition again.
C1_Witness ==
    /\ ev_pc = "eval"
    /\ \E a \in AlertIds :
         /\ h_tick.alerts[a].status = TRIGGERED
         /\ ~alerts[a].is_repeating
         /\ a \notin Range(active_alerts)
         /\ alerts[a].symbol \in DOMAIN quotes
         /\ Held(a)

\* C10: a tick of check_alerts in which no active alert's condition holds
\* inserts no Notification, sends no email and changes no alert field other
\* than last_checked_at; after two such ticks in a row the store is what it
\* was after one, up to last_checked_at.
C10_QuietTick ==
    (ev_pc = "idle" /\ h_quiet >= 1) => StoreView = h_base

\* Two ticks in a row held no condition, and the second one examined an alert.
C10_Witness ==
    /\ ev_pc = "idle"
    /\ h_quiet = 2
    /\ \E a \in AlertIds :
         /\ alerts[a].last_checked_at = Some(now)
         /\ alerts[a].status = ACTIVE
         /\ alerts[a].alert_type # VOLUME_SPIKE

\* The alert the loop over active_alerts is at, and the quote of its symbol.
EvalCurrent == active_alerts[ev_i]

EvalQuote == quotes[alerts[EvalCurrent].symbol]

\* C11: for an active alert whose symbol has no quote in the tick's quote map,
\* or whose current price is absent or zero, the loop's iteration changes no
\* alert row (last_checked_at included) and inserts no notification; and a
\* step changes an alert's last_checked_at only when it is that alert's
\* iteration and the current price was present and non-zero.
C11_SkipUnpriced ==
    [][/\ (ev_pc = "eval" /\ ~Examined(EvalQuote)) =>
             (alerts' = alerts /\ notifications' = notifications)
       /\ \A a \in AlertIds :
             alerts'[a].last_checked_at # alerts[a].last_checked_at =>
                /\ ev_pc = "eval"
                /\ a = EvalCurrent
                /\ Examined(EvalQuote)]_vars

\* The loop has passed an active alert whose quote has no current price; the
\* alert is still active and was not stamped by this tick.
C11_Witness ==
    /\ ev_pc = "eval"
    /\ ev_i = 2
    /\ LET a == active_alerts[1]
       IN /\ quotes[alerts[a].symbol] # None
          /\ Val(quotes[alerts[a].symbol]).c = None
          /\ alerts[a].status = ACTIVE
          /\ alerts[a].last_checked_at # Some(now)
          /\ NotificationsOf(notifications, a) = NotificationsOf(h_tick.notifications, a)

\* The in-app notifications of a list that refer to alert a.
InAppOf(ns, a) == SelectSeq(ns, LAMBDA n : n.alert_id = a /\ n.channel = IN_APP)

NewInApp(a) ==
    SubSeq(InAppOf(notifications, a),
           Len(InAppOf(h_tick.notifications, a)) + 1,
           Len(InAppOf(notifications, a)))

\* The loop over active_alerts has finished the iteration at index i.
EvalPassed(i) == ev_pc = "email" \/ (ev_pc = "eval" /\ i < ev_i)

EmailTables ==
    {[a \in AlertIds |-> NewAlert(owner[a], SymbolOf(a), PRICE_ABOVE, FALSE, ne[a])] :
        owner \in [AlertIds -> UserIds], ne \in [AlertIds -> BOOLEAN]}

EmailUsers ==
    {[u \in UserIds |-> [email_notifications |-> u = 1 \/ on]] : on \in BOOLEAN}

\* The evaluator before its first tick, whatever the tables hold.
EvalStart ==
    /\ notifications = <<>>
    /\ email_log = <<>>
    /\ now = 0
    /\ ev_pc = "idle"
    /\ active_alerts = <<>>
    /\ live_prices = <<>>
    /\ symbols_left = {}
    /\ quotes = <<>>
    /\ ev_i = 0
    /\ triggered_by_user = <<>>
    /\ triggered_count = 0
    /\ ticks = 0
    /\ h_tick = <<>>
    /\ h_held = FALSE
    /\ h_quiet = 0
    /\ h_base = <<>>
    /\ PredIdle
    /\ SectorIdle
    /\ WorkerIdle

EmailInit ==
    /\ alerts \in EmailTables
    /\ users \in EmailUsers
    /\ EvalStart

SpecEmail == EmailInit /\ [][Next]_vars

\* The email rows recorded at time t for alert a of user u.
EmailRowsOf(u, a, t) ==
    SelectSeq(notifications,
              LAMBDA n : /\ n.channel = EMAIL
                         /\ n.user_id = u
                         /\ n.alert_id = a
                         /\ n.created_at = t)

\* C30: for a user's batch of a tick send_email is called at most three
\* times and not again after a call that succeeded; each alert of the batch
\* then has exactly one email row of that tick, marked read, whose
\* email_sent_at is set exactly when a call succeeded; and there is no
\* email row without such a batch.
C30_EmailRetry ==
    /\ \A i \in DOMAIN email_log :
          LET e == email_log[i]
              n == Len(e.calls)
          IN /\ n \in 1 .. 3
             /\ \A j \in 1 .. n - 1 : ~e.calls[j]
             /\ n < 3 => e.calls[n]
             /\ \A k \in DOMAIN email_log :
                   (email_log[k].user_id = e.user_id /\ email_log[k].at = e.at) => k = i
             /\ \A a \in Range(e.alert_ids) :
                   LET rows == EmailRowsOf(e.user_id, a, e.at)
                   IN /\ Len(rows) = 1
                      /\ rows[1].is_read
                      /\ rows[1].email_sent_at # None <=> \E j \in 1 .. n : e.calls[j]
    /\ \A r \in DOMAIN notifications :
          notifications[r].channel = EMAIL =>
             \E i \in DOMAIN email_log :
                /\ email_log[i].user_id = notifications[r].user_id
                /\ email_log[i].at = notifications[r].created_at
                /\ notifications[r].alert_id \in Range(email_log[i].alert_ids)

\* Both users were sent a batch in one tick: one got through at the second
\* attempt, the other failed three times and left its row without
\* email_sent_at.
C30_Witness ==
    /\ Len(email_log) = 2
    /\ email_log[1].at = email_log[2].at
    /\ email_log[1].user_id # email_log[2].user_id
    /\ \E i, k \in DOMAIN email_log :
          /\ email_log[i].calls = <<FALSE, TRUE>>
          /\ email_log[k].calls = <<FALSE, FALSE, FALSE>>
          /\ \E a \in Range(email_log[k].alert_ids) :
                EmailRowsOf(email_log[k].user_id, a, email_log[k].at)[1].email_sent_at = None
          /\ \E a \in Range(email_log[i].alert_ids) :
                EmailRowsOf(email_log[i].user_id, a, email_log[i].at)[1].email_sent_at # None

\* The alerts of user u that a tick at time t triggered and that ask for
\* email: those with an in-app row of that time.
EmailDue(u, t) ==
    {a \in AlertIds :
        /\ alerts[a].user_id = u
        /\ alerts[a].notify_email
        /\ \E r \in DOMAIN notifications :
              /\ notifications[r].channel = IN_APP
              /\ notifications[r].alert_id = a
              /\ notifications[r].created_at = t}

\* The tick that began at time t has sent its emails.
EmailsDone(t) == t >= 1 /\ (t < now \/ ev_pc = "idle")

VolumeTables ==
    {[a \in AlertIds |-> NewAlert(1, SymbolOf(a), ty[a], r, a = 1)] :
        ty \in {f \in [AlertIds -> AlertType] : \E a \in AlertIds : f[a] = VOLUME_SPIKE},
        r \in BOOLEAN}

VolumeInit ==
    /\ alerts \in VolumeTables
    /\ users = [u \in UserIds |-> [email_notifications |-> u = 1]]
    /\ EvalStart

SpecVolume == VolumeInit /\ [][Next]_vars

\* The volume_spike branch of check_condition over every input of the
\* predicate's domain.
VolumeSpikeNeverHolds ==
    \A threshold \in PredThresholds, current \in PredCurrents,
       previous \in PredPrevious :
       ~check_condition(VOLUME_SPIKE, threshold, current, previous)

\* C25: the predicate of a volume_spike alert is false for every threshold,
\* current price and previous close, and through any number of ticks such an
\* alert stays active, is never stamped as triggered and has no notification.
C25_VolumeSpikeInert ==
    /\ VolumeSpikeNeverHolds
    /\ \A a \in AlertIds :
          alerts[a].alert_type = VOLUME_SPIKE =>
             /\ alerts[a].status = ACTIVE
             /\ alerts[a].triggered_at = None
             /\ alerts[a].trigger_price = None
             /\ NotificationsOf(notifications, a) = <<>>
             /\ (ev_pc = "eval" /\ ev_i <= Len(active_alerts)
                   /\ a = active_alerts[ev_i]) => ~Held(a)

\* A volume_spike alert was examined against a quote in the second tick.
C25_Witness ==
    /\ now = 2
    /\ ev_pc = "idle"
    /\ \E a \in AlertIds :
         /\ alerts[a].alert_type = VOLUME_SPIKE
         /\ alerts[a].last_checked_at = Some(2)
         /\ alerts[a].status = ACTIVE

(***************************************************************************)
(* services/alert_engine.py: AlertEngine.check_sector_strategies           *)
(***************************************************************************)
\* Bounds of the sector evaluator's world.
MaxBasket == 3

MaxSecTicks == 1

StrategyIds == {1, 2}

\* The stocks a sector can hold, in the order of sector.stocks.
SectorSymbols == <<"A", "B", "C", "D", "E">>

\* Closes and live prices in cents; against the close 100.00 the live prices
\* are moves of -1.50, 0.00 and +2.00 percent.
SecLiveReads == {None, Some(9850), Some(10000), Some(10200)}

SecPrevReads == {None, Some(10000)}

SecUpstreamQuotes ==
    {None,
     Some([c |-> Some(10200), pc |-> Some(10000)])}

SECTOR_DIVERGENCE == "sector_divergence"

\* ((c - pc) / pc) * 100, in hundredths of a percent.  The drawn closes divide
\* the drawn differences evenly, so the quotient is exact.
PctChange(c, pc) == ((c - pc) * 10000) \div pc

\* basket_moves, lines 72-78: the stocks whose quote has a current price and
\* a previous close, each with its move.
RECURSIVE BasketMoves(_, _)
BasketMoves(stocks, q) ==
    IF stocks = <<>> THEN <<>>
    ELSE LET sym == Head(stocks)
             quote == q[sym]
         IN (IF quote # None /\ Truthy(Val(quote).c) /\ Truthy(Val(quote).pc)
             THEN <<[symbol |-> sym,
                     change |-> PctChange(Val(Val(quote).c), Val(Val(quote).pc)),
                     price |-> Val(Val(quote).c)]>>
             ELSE <<>>)
            \o BasketMoves(Tail(stocks), q)

\* (len(xs) / total_stocks) * 100 >= percent_majority
ShareAtLeast(n, total, percent_majority) == n * 100 >= percent_majority * total

\* Lines 83-107 with the test len(laggards) == 1 loosened to >= 1.
DivergenceMutAny(strategy, basket_moves, total_stocks) ==
    LET up_trenders ==
            SelectSeq(basket_moves, LAMBDA s : s.change >= strategy.trend_threshold)
        down_trenders ==
            SelectSeq(basket_moves, LAMBDA s : s.change <= -strategy.trend_threshold)
        low == SelectSeq(basket_moves, LAMBDA s : s.change <= strategy.laggard_threshold)
        high == SelectSeq(basket_moves,
                          LAMBDA s : s.change >= Abs(strategy.laggard_threshold))
    IN IF ShareAtLeast(Len(up_trenders), total_stocks, strategy.percent_majority)
       THEN IF Len(low) >= 1
            THEN Some([laggard |-> low[1], direction |-> "UP"])
            ELSE None
       ELSE IF ShareAtLeast(Len(down_trenders), total_stocks, strategy.percent_majority)
       THEN IF Len(high) >= 1
            THEN Some([laggard |-> high[1], direction |-> "DOWN"])
            ELSE None
       ELSE None

\* Lines 83-107 with the down trend tested before the up trend.
DivergenceMutDownFirst(strategy, basket_moves, total_stocks) ==
    LET up_trenders ==
            SelectSeq(basket_moves, LAMBDA s : s.change >= strategy.trend_threshold)
        down_trenders ==
            SelectSeq(basket_moves, LAMBDA s : s.change <= -strategy.trend_threshold)
        low == SelectSeq(basket_moves, LAMBDA s : s.change <= strategy.laggard_threshold)
        high == SelectSeq(basket_moves,
                          LAMBDA s : s.change >= Abs(strategy.laggard_threshold))
    IN IF ShareAtLeast(Len(down_trenders), total_stocks, strategy.percent_majority)
       THEN IF Len(high) = 1
            THEN Some([laggard |-> high[1], direction |-> "DOWN"])
            ELSE None
       ELSE IF ShareAtLeast(Len(up_trenders), total_stocks, strategy.percent_majority)
       THEN IF Len(low) = 1
            THEN Some([laggard |-> low[1], direction |-> "UP"])
            ELSE None
       ELSE None

\* Lines 83-107: the trend of the basket and its laggard, None or
\* <<[laggard, direction]>>.
Divergence(strategy, basket_moves, total_stocks) ==
    LET up_trenders ==
            SelectSeq(basket_moves, LAMBDA s : s.change >= strategy.trend_threshold)
        down_trenders ==
            SelectSeq(basket_moves, LAMBDA s : s.change <= -strategy.trend_threshold)
        low == SelectSeq(basket_moves, LAMBDA s : s.change <= strategy.laggard_threshold)
        high == SelectSeq(basket_moves,
                          LAMBDA s : s.change >= Abs(strategy.laggard_threshold))
    IN IF ShareAtLeast(Len(up_trenders), total_stocks, strategy.percent_majority)
       THEN IF Len(low) = 1
            THEN Some([laggard |-> low[1], direction |-> "UP"])
            ELSE None
       ELSE IF ShareAtLeast(Len(down_trenders), total_stocks, strategy.percent_majority)
       THEN IF Len(high) = 1
            THEN Some([laggard |-> high[1], direction |-> "DOWN"])
            ELSE None
       ELSE None

\* Lines 67-107: what one strategy's iteration decides.
StrategyDecision(strategy, stocks, q) ==
    LET total_stocks == Len(stocks)
        basket_moves == BasketMoves(stocks, q)
    IN IF total_stocks < 2 THEN None
       ELSE IF Len(basket_moves) # total_stocks THEN None
       ELSE Divergence(strategy, basket_moves, total_stocks)

\* The Notification row of lines 115-124.  A NULL alert_id is 0; the message
\* is kept as the direction it names.
DivergenceNotification(strategy, d) ==
    [user_id |-> strategy.user_id,
     alert_id |-> 0,
     channel |-> IN_APP,
     symbol |-> d.laggard.symbol,
     trigger_price |-> d.laggard.price,
     alert_type |-> SECTOR_DIVERGENCE,
     threshold_value |-> d.laggard.change,
     direction |-> d.direction,
     is_read |-> FALSE,
     email_sent_at |-> None,
     created_at |-> now]

RECURSIVE StrategiesWhere(_, _)
StrategiesWhere(tbl, i) ==
    IF i \notin StrategyIds THEN <<>>
    ELSE IF tbl[i].is_active THEN <<i>> \o StrategiesWhere(tbl, i + 1)
    ELSE StrategiesWhere(tbl, i + 1)

\* db.query(SectorStrategy).filter(SectorStrategy.is_active == True).all()
LoadStrategies(tbl) == StrategiesWhere(tbl, 1)

\* check_sector_strategies returns: its locals are gone.
SecReturn ==
    /\ sec_pc' = "idle"
    /\ sec_active' = <<>>
    /\ sec_live' = <<>>
    /\ sec_symbols_left' = {}
    /\ sec_quotes' = <<>>
    /\ sec_i' = 0
    /\ sec_count' = 0
    /\ sec_ticks' = sec_ticks + 1

\* check_sector_strategies, lines 28-46: load the active strategies, collect
\* their sectors' symbols, return if there are none, else read the live prices.
SecLoad ==
    /\ sec_pc = "idle"
    /\ sec_ticks < MaxSecTicks
    /\ now' = now + 1
    /\ h_sec' = <<>>
    /\ LET loaded == LoadStrategies(strategies)
           syms == UNION {Range(sector_stocks[k]) : k \in Range(loaded)}
       IN IF loaded = <<>> \/ syms = {}
          THEN SecReturn
          ELSE /\ sec_active' = loaded
               /\ sec_symbols_left' = syms
               /\ \E lp \in [syms -> SecLiveReads] : sec_live' = lp
               /\ sec_quotes' = [s \in syms |-> None]
               /\ sec_pc' = "fetch"
               /\ UNCHANGED <<sec_i, sec_count, sec_ticks>>
    /\ UNCHANGED <<strategies, sector_stocks>>
    /\ UNCHANGED <<alerts, users, notifications, email_log>>
    /\ UNCHANGED <<predVars, evalVars, histVars, workerVars>>

\* The place of a symbol in symbols_list = list(all_symbols): Python fixes no
\* order for it; the model takes the order of SectorSymbols.
SecSymbolIndex(s) == CHOOSE i \in DOMAIN SectorSymbols : SectorSymbols[i] = s

\* check_sector_strategies, lines 50-63: one iteration of the loop over
\* symbols_list.
SecFetchQuote(s) ==
    /\ sec_pc = "fetch"
    /\ s \in sec_symbols_left
    /\ \A o \in sec_symbols_left : SecSymbolIndex(s) <= SecSymbolIndex(o)
    /\ sec_symbols_left' = sec_symbols_left \ {s}
    /\ \E pc \in SecPrevReads :
         LET c == sec_live[s]
         IN IF c = None \/ pc = None
            THEN \E quote \in SecUpstreamQuotes :
                   sec_quotes' =
                     IF quote # None
                     THEN [sec_quotes EXCEPT ![s] =
                             Some([c |-> Val(quote).c, pc |-> Val(quote).pc])]
                     ELSE sec_quotes
            ELSE sec_quotes' = [sec_quotes EXCEPT ![s] = Some([c |-> c, pc |-> pc])]
    /\ IF sec_symbols_left' = {}
       THEN sec_pc' = "eval" /\ sec_i' = 1
       ELSE UNCHANGED <<sec_pc, sec_i>>
    /\ UNCHANGED <<strategies, sector_stocks, sec_active, sec_live, sec_count,
                   sec_ticks, h_sec>>
    /\ UNCHANGED <<predVars, storeVars, evalVars, histVars, workerVars>>

\* check_sector_strategies, lines 65-129: one iteration of the loop over
\* active_strategies.
SecEvalStrategy ==
    /\ sec_pc = "eval"
    /\ sec_i <= Len(sec_active)
    /\ LET k == sec_active[sec_i]
           d == StrategyDecision(strategies[k], sector_stocks[k], sec_quotes)
       IN /\ h_sec' = [strategy |-> k,
                       notifications |-> notifications,
                       last_triggered_at |-> strategies[k].last_triggered_at]
          /\ IF d # None
             THEN /\ notifications' =
                       Append(notifications,
                              DivergenceNotification(strategies[k], Val(d)))
                  /\ strategies' =
                       [strategies EXCEPT ![k].last_triggered_at = Some(now)]
                  /\ sec_count' = sec_count + 1
             ELSE UNCHANGED <<notifications, strategies, sec_count>>
    /\ sec_i' = sec_i + 1
    /\ UNCHANGED <<sector_stocks, sec_pc, sec_active, sec_live, sec_symbols_left,
                   sec_quotes, sec_ticks>>
    /\ UNCHANGED <<alerts, users, email_log, now>>
    /\ UNCHANGED <<predVars, evalVars, histVars, workerVars>>

\* check_sector_strategies, line 136: return triggered_count.
SecDone ==
    /\ sec_pc = "eval"
    /\ sec_i > Len(sec_active)
    /\ SecReturn
    /\ h_sec' = <<>>
    /\ UNCHANGED <<strategies, sector_stocks>>
    /\ UNCHANGED <<predVars, storeVars, evalVars, histVars, workerVars>>

(***************************************************************************)
(* SpecSector: sector-strategy ticks over drawn strategies and baskets     *)
(***************************************************************************)
\* A row of table sector_strategies, thresholds in hundredths of a percent.
NewStrategy(u, active, pm, tt, lt) ==
    [user_id |-> u, is_active |-> active, percent_majority |-> pm,
     trend_threshold |-> tt, laggard_threshold |-> lt,
     last_triggered_at |-> None]

\* The first n stocks of SectorSymbols.
Basket(n) == SubSeq(SectorSymbols, 1, n)

\* Strategy 1 is drawn: a majority of 30 or 60 percent, a trend of 1.50
\* percent, a laggard threshold of -1.00 or +1.00 percent, on a basket of 1 to
\* MaxBasket stocks.  Strategy 2 asks for a majority of 50 percent, with the
\* API's default thresholds (1.5, -1.0), on the first two stocks, active or not.
SectorInit ==
    /\ \E pm \in {30, 60}, lt \in {-100, 100}, on \in BOOLEAN :
         strategies = [k \in StrategyIds |->
                         IF k = 1 THEN NewStrategy(1, TRUE, pm, 150, lt)
                         ELSE NewStrategy(1, on, 50, 150, -100)]
    /\ \E n \in 1..MaxBasket :
         sector_stocks = [k \in StrategyIds |-> IF k = 1 THEN Basket(n) ELSE Basket(2)]
    /\ sec_pc = "idle"
    /\ sec_active = <<>>
    /\ sec_live = <<>>
    /\ sec_symbols_left = {}
    /\ sec_quotes = <<>>
    /\ sec_i = 0
    /\ sec_count = 0
    /\ sec_ticks = 0
    /\ h_sec = <<>>
    /\ StoreIdle
    /\ EvalIdle
    /\ PredIdle
    /\ WorkerIdle

SectorNext ==
    \/ SecLoad
    \/ \E s \in Range(SectorSymbols) : SecFetchQuote(s)
    \/ SecEvalStrategy
    \/ SecDone

SpecSector == SectorInit /\ [][SectorNext]_vars

(***************************************************************************)
(* Properties of the sector-strategy evaluator.  They are stated on the    *)
(* state right after one strategy's iteration, from the tick's quotes and  *)
(* the strategy's basket as sets, not from the lists the code builds.      *)
(***************************************************************************)
\* The strategy whose iteration just ran, its basket and its parameters.
SecK == h_sec.strategy

SecBasket == Range(sector_stocks[SecK])

SecSize == Len(sector_stocks[SecK])

\* The stock has both a current price and a previous close in the tick's quotes.
SecHasData(s) ==
    /\ sec_quotes[s] # None
    /\ Truthy(Val(sec_quotes[s]).c)
    /\ Truthy(Val(sec_quotes[s]).pc)

SecComplete == \A s \in SecBasket : SecHasData(s)

\* pct(s) = 100 * (current - prev_close) / prev_close
SecPct(s) == PctChange(Val(Val(sec_quotes[s]).c), Val(Val(sec_quotes[s]).pc))

SecUp == {s \in SecBasket : SecPct(s) >= strategies[SecK].trend_threshold}

SecDown == {s \in SecBasket : SecPct(s) <= -strategies[SecK].trend_threshold}

SecTrendsUp ==
    Cardinality(SecUp) * 100 >= strategies[SecK].percent_majority * SecSize

SecTrendsDown ==
    Cardinality(SecDown) * 100 >= strategies[SecK].percent_majority * SecSize

SecLow == {s \in SecBasket : SecPct(s) <= strategies[SecK].laggard_threshold}

SecHigh == {s \in SecBasket : SecPct(s) >= Abs(strategies[SecK].laggard_threshold)}

\* The stocks that meet the laggard threshold for the detected direction.
SecLaggards ==
    IF SecTrendsUp THEN SecLow ELSE IF SecTrendsDown THEN SecHigh ELSE {}

\* The iteration inserted one sector_divergence row and nothing else.
SecEmitted ==
    /\ Len(notifications) = Len(h_sec.notifications) + 1
    /\ SubSeq(notifications, 1, Len(h_sec.notifications)) = h_sec.notifications
    /\ notifications[Len(notifications)].alert_type = SECTOR_DIVERGENCE

SecRow == notifications[Len(notifications)]

SecSilent ==
    /\ notifications = h_sec.notifications
    /\ strategies[SecK].last_triggered_at = h_sec.last_triggered_at

\* C3: a strategy's iteration inserts a sector_divergence Notification only if
\* exactly one stock of its basket meets the laggard threshold for the
\* detected majority direction; with none or with two or more it inserts
\* nothing and leaves last_triggered_at unchanged.
C3_LaggardUnique ==
    h_sec # <<>> =>
        /\ SecEmitted \/ SecSilent
        /\ SecEmitted => (SecComplete /\ Cardinality(SecLaggards) = 1)
        /\ (SecComplete /\ Cardinality(SecLaggards) # 1) => SecSilent

\* A tie: the basket trends up, has data for every stock, two of its stocks
\* meet the laggard threshold, and nothing was inserted.
C3_Witness ==
    /\ h_sec # <<>>
    /\ SecComplete
    /\ SecTrendsUp
    /\ Cardinality(SecLow) >= 2
    /\ SecSilent

MAX_RATE == 58

TIME_PERIOD == 60

\* The clock stops here, before one time_period has passed.
MaxSeconds == 2

Procs == {"api", "worker"}

\* AsyncLimiter.has_capacity(1) on the drained level.
has_capacity(level) == level + TIME_PERIOD <= MAX_RATE * TIME_PERIOD

\* One second of drain.
Leak(level) == IF level > MAX_RATE THEN level - MAX_RATE ELSE 0

LimInit ==
    /\ lim_level = [p \in Procs |-> 0]
    /\ lim_issued = [p \in Procs |-> 0]
    /\ lim_clock = 0
    /\ StIdle
    /\ RefIdle
    /\ SupIdle
    /\ ExtIdle
    /\ PredIdle
    /\ StoreIdle
    /\ EvalIdle
    /\ SectorIdle

\* `async with self.rate_limiter: response = await self.client.get(...)` in
\* a caller of process p: the permit is taken and the request sent.  A caller
\* that finds no capacity waits, which is this action being disabled.
LimRequest(p) ==
    /\ has_capacity(lim_level[p])
    /\ lim_level' = [lim_level EXCEPT ![p] = @ + TIME_PERIOD]
    /\ lim_issued' = [lim_issued EXCEPT ![p] = @ + 1]
    /\ UNCHANGED lim_clock
    /\ UNCHANGED <<stVars, refVars, supVars, extVars>>
    /\ UNCHANGED <<predVars, storeVars, evalVars, histVars, sectorVars>>

\* One second passes; both buckets drain.
LimTick ==
    /\ lim_clock < MaxSeconds
    /\ lim_clock' = lim_clock + 1
    /\ lim_level' = [p \in Procs |-> Leak(lim_level[p])]
    /\ UNCHANGED lim_issued
    /\ UNCHANGED <<stVars, refVars, supVars, extVars>>
    /\ UNCHANGED <<predVars, storeVars, evalVars, histVars, sectorVars>>

LimNext ==
    \/ \E p \in Procs : LimRequest(p)
    \/ LimTick

SpecLimiter == LimInit /\ [][LimNext]_vars

\* C2: across any rolling 60-second window and any interleaving of callers,
\* at most 58 HTTP requests are issued upstream.  The clock of this
\* specification stays below 60 s, so every request issued so far lies in
\* one window.
C2_RateBudget ==
    lim_clock < TIME_PERIOD =>
        lim_issued["api"] + lim_issued["worker"] <= MAX_RATE

(***************************************************************************)
(* SpecStreamer: MarketStreamer.connect_and_stream and the vendor socket   *)
(***************************************************************************)
\* Connections the streamer may open.
MaxConnects == 2

\* Frames the vendor may have in flight towards recv().
MaxInbox == 2

\* get_top_symbols: the symbols always included, and the cap of list(...)[:50].
INDEXES == {"SPY", "QQQ", "IWM"}

SUBSCRIPTION_CAP == 50

\* What the two queries of get_top_symbols add to the set: nothing (no rows,
\* or the query raised and was logged), or the symbols of active alerts and
\* sector stocks.
StDbSymbolSets == {{}, {"AAPL"}}

\* The sets left when k elements of S are dropped.
RECURSIVE DropSets(_, _)
DropSets(S, k) ==
    IF k = 0 THEN {S} ELSE UNION {DropSets(S \ {x}, k - 1) : x \in S}

\* `symbols` returned whole, without the slice.
TopSymbolSetsMutAll(symbols) == {symbols}

\* set(list(symbols)[:50]): all of symbols when there are at most 50, else
\* 50 of them in the set's iteration order, which the code does not fix
\* (a Python set of str iterates in hash order, which changes from one
\* process to the next): any 50 may be the ones kept.
TopSymbolSets(symbols) ==
    IF Cardinality(symbols) <= SUBSCRIPTION_CAP
    THEN {symbols}
    ELSE DropSets(symbols, Cardinality(symbols) - SUBSCRIPTION_CAP)

\* Frames of the vendor, after json.loads: a ping, trades, and a frame that
\* json.loads rejects.  A trade is [s, p]; either may be missing, p may be 0.
StTrade(s, p) == [s |-> s, p |-> p]

StFrames ==
    { [type |-> "ping", data |-> <<>>],
      [type |-> "malformed", data |-> <<>>],
      [type |-> "trade", data |-> <<StTrade(Some("AAPL"), Some(15000))>>],
      [type |-> "trade", data |-> <<StTrade(None, Some(15000)),
                                    StTrade(Some("SPY"), Some(0))>>],
      [type |-> "trade", data |-> <<StTrade(Some("SPY"), Some(45000)),
                                    StTrade(Some("AAPL"), Some(15100)),
                                    StTrade(Some("AAPL"), Some(15200))>>] }

\* `if symbol and price`
StAccepted(trade) == trade.s # None /\ Truthy(trade.p)

\* The live prices after the loop over data["data"], each accepted trade
\* written by update_live_price.
RECURSIVE ApplyTrades(_, _, _)
ApplyTrades(live, data, i) ==
    IF i > Len(data) THEN live
    ELSE IF StAccepted(data[i])
         THEN ApplyTrades([s \in DOMAIN live \cup {Val(data[i].s)} |->
                              IF s = Val(data[i].s) THEN Val(data[i].p) ELSE live[s]],
                          data, i + 1)
         ELSE ApplyTrades(live, data, i + 1)

\* The last trade of a frame that names symbol s, among all of them or among
\* those with a price other than zero; None when there is none.
LastTrade(data, s, priced) ==
    LET idx == {i \in 1 .. Len(data) :
                   /\ data[i].s = Some(s)
                   /\ priced => (data[i].p # None /\ Val(data[i].p) # 0)}
    IN IF idx = {} THEN None
       ELSE Some(data[CHOOSE i \in idx : \A j \in idx : j <= i].p)

\* The record of the trades received so far, after one more frame: for each
\* symbol named, the price of its last trade and of its last priced trade.
TradesSeen(seen, data) ==
    LET named == {Val(data[i].s) : i \in {j \in 1 .. Len(data) : data[j].s # None}}
    IN [s \in DOMAIN seen \cup named |->
          [any |-> IF LastTrade(data, s, FALSE) # None
                   THEN Val(LastTrade(data, s, FALSE)) ELSE seen[s].any,
           priced |-> IF LastTrade(data, s, TRUE) # None
                      THEN LastTrade(data, s, TRUE)[1]
                      ELSE IF s \in DOMAIN seen THEN seen[s].priced ELSE None]]

WritesIn(data) == Cardinality({i \in 1..Len(data) : StAccepted(data[i])})

\* Where the code awaits websocket.recv() and handles what it returns.
RecvEnabledMutEarly == st_pc \in {"subscribe", "recv"}

RecvEnabled == st_pc = "recv"

StStart ==
    /\ st_pc = "top"
    /\ st_active_symbols = {}
    /\ st_to_send = {}
    /\ st_sent = <<>>
    /\ st_inbox = <<>>
    /\ st_live = <<>>
    /\ st_connects = 0
    /\ h_st_wrote = FALSE
    /\ LimIdle
    /\ RefIdle
    /\ SupIdle
    /\ ExtIdle
    /\ PredIdle
    /\ StoreIdle
    /\ EvalIdle
    /\ SectorIdle

\* The streamer as constructed, the record of trades not kept.
StInit ==
    /\ StStart
    /\ h_st_trades = [on |-> FALSE, seen |-> <<>>]
    /\ st_added = {}

\* The same, every trade received recorded.
TradesInit ==
    /\ StStart
    /\ h_st_trades = [on |-> TRUE, seen |-> <<>>]
    /\ st_added = {}

\* self.active_symbols = self.get_top_symbols().  An exception that leaves
\* get_top_symbols (SessionLocal() and db.close() are outside its try) is
\* caught by connect_and_stream's `except Exception`.  The rows committed
\* since the last enumeration are read with the others, unless a query raised.
StTop ==
    /\ st_pc = "top"
    /\ \/ /\ \E db \in StDbSymbolSets, read \in {{}, st_added} :
               st_active_symbols' \in TopSymbolSets(INDEXES \cup db \cup read)
          /\ st_pc' = "connect"
       \/ /\ st_pc' = "sleep"
          /\ UNCHANGED st_active_symbols
    /\ UNCHANGED <<st_to_send, st_sent, st_inbox, st_live, st_connects, h_st_wrote>>
    /\ UNCHANGED <<h_st_trades, st_added>>
    /\ UNCHANGED <<limVars, refVars, supVars, extVars>>
    /\ UNCHANGED <<predVars, storeVars, evalVars, histVars, sectorVars>>

\* `async with websockets.connect(self.ws_url) as websocket`: the connection
\* opens and the subscribe loop starts, or connect raises.
StConnect ==
    /\ st_pc = "connect"
    /\ \/ /\ st_connects < MaxConnects
          /\ st_connects' = st_connects + 1
          /\ st_to_send' = st_active_symbols
          /\ st_sent' = <<>>
          /\ st_inbox' = <<>>
          /\ h_st_wrote' = FALSE
          /\ st_pc' = IF st_active_symbols = {} THEN "recv" ELSE "subscribe"
       \/ /\ st_pc' = "sleep"
          /\ UNCHANGED <<st_connects, st_to_send, st_sent, st_inbox, h_st_wrote>>
    /\ UNCHANGED <<st_active_symbols, st_live>>
    /\ UNCHANGED <<h_st_trades, st_added>>
    /\ UNCHANGED <<limVars, refVars, supVars, extVars>>
    /\ UNCHANGED <<predVars, storeVars, evalVars, histVars, sectorVars>>

\* One iteration of `for symbol in self.active_symbols`: the subscribe frame
\* of s is sent.  The set's iteration order is not fixed by the code.
StSubscribe(s) ==
    /\ st_pc = "subscribe"
    /\ s \in st_to_send
    /\ st_to_send' = st_to_send \ {s}
    /\ st_sent' = Append(st_sent, s)
    /\ st_pc' = IF st_to_send' = {} THEN "recv" ELSE "subscribe"
    /\ UNCHANGED <<st_active_symbols, st_inbox, st_live, st_connects, h_st_wrote>>
    /\ UNCHANGED <<h_st_trades, st_added>>
    /\ UNCHANGED <<limVars, refVars, supVars, extVars>>
    /\ UNCHANGED <<predVars, storeVars, evalVars, histVars, sectorVars>>

\* The vendor sends a frame on the open connection; it waits in the
\* library's buffer until recv() returns it.
StVendorPush(f) ==
    /\ st_pc \in {"subscribe", "recv"}
    /\ Len(st_inbox) < MaxInbox
    /\ st_inbox' = Append(st_inbox, f)
    /\ UNCHANGED <<st_pc, st_active_symbols, st_to_send, st_sent, st_live,
                   st_connects, h_st_wrote>>
    /\ UNCHANGED <<h_st_trades, st_added>>
    /\ UNCHANGED <<limVars, refVars, supVars, extVars>>
    /\ UNCHANGED <<predVars, storeVars, evalVars, histVars, sectorVars>>

\* One iteration of the listen loop: recv(), json.loads, and for a trade
\* frame the loop over its trades.  json.loads raising leaves through the
\* `except Exception` branch.
StRecv ==
    /\ RecvEnabled
    /\ st_inbox # <<>>
    /\ LET f == Head(st_inbox)
       IN /\ st_inbox' = Tail(st_inbox)
          /\ IF f.type = "malformed"
             THEN /\ st_pc' = "sleep"
                  /\ UNCHANGED <<st_live, h_st_wrote, h_st_trades>>
             ELSE IF f.type = "trade"
             THEN /\ st_live' = ApplyTrades(st_live, f.data, 1)
                  /\ h_st_wrote' = (h_st_wrote \/ WritesIn(f.data) > 0)
                  /\ h_st_trades' = IF h_st_trades.on
                                     THEN [h_st_trades EXCEPT !.seen = TradesSeen(@, f.data)]
                                     ELSE h_st_trades
                  /\ UNCHANGED st_pc
             ELSE UNCHANGED <<st_pc, st_live, h_st_wrote, h_st_trades>>
    /\ UNCHANGED <<st_active_symbols, st_to_send, st_sent, st_connects, st_added>>
    /\ UNCHANGED <<limVars, refVars, supVars, extVars>>
    /\ UNCHANGED <<predVars, storeVars, evalVars, histVars, sectorVars>>

\* The connection closes: send() or recv() raises ConnectionClosed, the
\* `async with` block is left and what the vendor had sent is lost.
StClosed ==
    /\ st_pc \in {"subscribe", "recv"}
    /\ st_pc' = "sleep"
    /\ st_inbox' = <<>>
    /\ UNCHANGED <<st_active_symbols, st_to_send, st_sent, st_live, st_connects,
                   h_st_wrote>>
    /\ UNCHANGED <<h_st_trades, st_added>>
    /\ UNCHANGED <<limVars, refVars, supVars, extVars>>
    /\ UNCHANGED <<predVars, storeVars, evalVars, histVars, sectorVars>>

\* Where connect_and_stream goes after the sleep of an except branch: the
\* next iteration of `while True`.
AfterSleepMutStop == "stopped"

AfterSleep == "top"

\* await asyncio.sleep(5), then the next iteration of the outer loop.
StSleep ==
    /\ st_pc = "sleep"
    /\ st_pc' = AfterSleep
    /\ UNCHANGED <<st_active_symbols, st_to_send, st_sent, st_inbox, st_live,
                   st_connects, h_st_wrote>>
    /\ UNCHANGED <<h_st_trades, st_added>>
    /\ UNCHANGED <<limVars, refVars, supVars, extVars>>
    /\ UNCHANGED <<predVars, storeVars, evalVars, histVars, sectorVars>>

StNext ==
    \/ StTop
    \/ StConnect
    \/ \E s \in INDEXES \cup UNION StDbSymbolSets : StSubscribe(s)
    \/ \E f \in StFrames : StVendorPush(f)
    \/ StRecv
    \/ StClosed
    \/ StSleep

SpecStreamer == StInit /\ [][StNext]_vars

SpecTrades == TradesInit /\ [][StNext]_vars

\* C4: on every connection, first or later, one subscribe frame is sent for
\* every symbol of the set computed for that connection before any inbound
\* trade is processed: while the subscribe loop runs no live price has been
\* written on the connection, and once one has been written the frames sent
\* are exactly one per symbol of the set.
C4_SubscribeBeforeTrades ==
    /\ st_pc = "subscribe" => ~h_st_wrote
    /\ (st_pc = "recv" /\ h_st_wrote) =>
          /\ st_to_send = {}
          /\ Range(st_sent) = st_active_symbols
          /\ Len(st_sent) = Cardinality(st_active_symbols)

\* A live price written on the second connection, after a reconnect, for a
\* symbol of that connection's subscription set.
C4_Witness ==
    /\ st_connects = 2
    /\ st_pc = "recv"
    /\ h_st_wrote
    /\ "AAPL" \in st_active_symbols
    /\ "AAPL" \in DOMAIN st_live

\* The streamer under the event loop's scheduling: a coroutine that can
\* continue does continue.  asyncio.sleep(5) returns, get_top_symbols and
\* websockets.connect return or raise, and each send of the subscribe loop
\* returns or raises.  Nothing is assumed of the vendor: it may refuse every
\* connection and send no frame.
SpecStreamerFair ==
    /\ StInit
    /\ [][StNext]_vars
    /\ WF_vars(StSleep)
    /\ WF_vars(StTop)
    /\ WF_vars(StConnect)
    /\ WF_vars(\E s \in INDEXES \cup UNION StDbSymbolSets : StSubscribe(s) \/ StClosed)

\* C14: after the socket closes or any other error in connect_and_stream the
\* streamer waits and then starts a new connection attempt, and never stops:
\* its position is always one of the loop's, a wait is always followed by a
\* new attempt (which begins by enumerating the symbols), an accepted
\* connection starts the subscribe loop over the whole set, and the subscribe loop ends subscribed or, on an error, in
\* the wait.
C14_Reconnects ==
    /\ [](st_pc \in {"top", "connect", "subscribe", "recv", "sleep"})
    /\ (st_pc = "sleep") ~> (st_pc = "top")
    /\ (st_pc = "subscribe") ~> (st_pc \in {"recv", "sleep"})
    /\ [][(st_pc = "connect" /\ st_pc' # "sleep") =>
             /\ st_pc' = "subscribe"
             /\ st_to_send' = st_active_symbols]_vars
    /\ [][(st_pc \in {"subscribe", "recv"} /\ st_pc' \notin {"subscribe", "recv"}) =>
             st_pc' = "sleep"]_vars

\* Subscribed again: the second connection has its whole set subscribed and
\* nothing received yet.
C14_Witness ==
    /\ st_connects = 2
    /\ st_pc = "recv"
    /\ Range(st_sent) = st_active_symbols
    /\ st_inbox = <<>>
    /\ ~h_st_wrote

(***************************************************************************)
(* SpecTop: MarketStreamer.get_top_symbols over databases with more        *)
(* symbols than one connection may subscribe.                               *)
(***************************************************************************)

\* Distinct symbols other than the indexes that the database may hold.
MaxOthers == 48

TickerOf(i) == "T" \o ToString(i)

Tickers(n) == {TickerOf(i) : i \in 1..n}

\* Symbols of the rows of Alert with status ACTIVE.
TopAlertSets == {{}, {"AAPL"}, Tickers(MaxOthers \div 2)}

\* Symbols of the rows of SectorStock.
TopSectorSets == {{}, {"AAPL", "SPY"}, Tickers(MaxOthers - 1), Tickers(MaxOthers)}

\* db = SessionLocal(); symbols = {"SPY", "QQQ", "IWM"}
TopInit ==
    /\ top_pc = "call"
    /\ top_alert_symbols \in TopAlertSets
    /\ top_sector_symbols \in TopSectorSets
    /\ top_symbols = INDEXES
    /\ top_returned = {}
    /\ LiveIdle
    /\ McIdle
    /\ ApiIdle
    /\ MqIdle
    /\ FbIdle
    /\ PaceIdle
    /\ CkIdle
    /\ TgIdle
    /\ RestIdle
    /\ LimIdle
    /\ StIdle
    /\ RefIdle
    /\ SupIdle
    /\ PredIdle
    /\ StoreIdle
    /\ EvalIdle
    /\ SectorIdle

\* The try block: both queries and their loops of symbols.add, or an
\* exception of the first or of the second query, logged.
TopQuery ==
    /\ top_pc = "call"
    /\ top_symbols' \in {top_symbols,
                         top_symbols \cup top_alert_symbols,
                         top_symbols \cup top_alert_symbols \cup top_sector_symbols}
    /\ top_pc' = "truncate"
    /\ UNCHANGED <<top_alert_symbols, top_sector_symbols, top_returned>>
    /\ UNCHANGED <<limVars, stVars, refVars, supVars, liveVars, mcVars, apiVars, mqVars, fbVars, paceVars, ckVars, tgVars, restVars>>
    /\ UNCHANGED <<predVars, storeVars, evalVars, histVars, sectorVars>>

\* symbol_list = list(symbols)[:50]; return set(symbol_list)
TopTruncate ==
    /\ top_pc = "truncate"
    /\ top_returned' \in TopSymbolSets(top_symbols)
    /\ top_pc' = "returned"
    /\ UNCHANGED <<top_alert_symbols, top_sector_symbols, top_symbols>>
    /\ UNCHANGED <<limVars, stVars, refVars, supVars, liveVars, mcVars, apiVars, mqVars, fbVars, paceVars, ckVars, tgVars, restVars>>
    /\ UNCHANGED <<predVars, storeVars, evalVars, histVars, sectorVars>>

TopNext == TopQuery \/ TopTruncate

SpecTop == TopInit /\ [][TopNext]_vars

\* C15: the set get_top_symbols returns has at most 50 symbols and holds
\* only symbols of active alerts, of sector stocks, or SPY, QQQ, IWM.
C15_SubscriptionCap ==
    top_pc = "returned" =>
       /\ Cardinality(top_returned) <= 50
       /\ top_returned \subseteq
             top_alert_symbols \cup top_sector_symbols \cup {"SPY", "QQQ", "IWM"}

\* More than 50 symbols were collected and 50 were returned.
C15_Witness ==
    /\ top_pc = "returned"
    /\ Cardinality(top_symbols) > 50
    /\ Cardinality(top_returned) = 50

\* C16: SPY, QQQ and IWM are in the returned set whatever else the database
\* holds.
C16_IndexesIncluded ==
    top_pc = "returned" => {"SPY", "QQQ", "IWM"} \subseteq top_returned

(***************************************************************************)
(* SpecLive: the live-price keys of MarketDataCache, written by the        *)
(* streamer and read by check_alerts, with the time that passes between a  *)
(* tick's read of the cache and its evaluation of the alerts.  Times are   *)
(* in tenths of a second.  Reads of the store do not fail.                 *)
(***************************************************************************)
\* setex(key, 300, value): the key's time to live.
LIVE_TTL == 3000

\* await asyncio.sleep(1.1) after an HTTP fallback that returned a quote.
FALLBACK_SLEEP == 11

MaxLiveTicks == 1

\* Passages of time between ticks.
MaxLiveJumps == 2

LiveSymbols == {"AAPL", "TSLA"}

LivePrices == {15000}

\* Time that passes while the checker is between two ticks (its waits and
\* the sector strategies' evaluation), and the time a get_quote takes.
LiveJumps == {LIVE_TTL - 10, LIVE_TTL}

LiveLatencies == {0, 20}

\* MarketDataCache.update_live_price at time t
update_live_price(cache, symbol, price, t) ==
    [cache EXCEPT ![symbol] = Some([price |-> price, written_at |-> t])]

\* The key of symbol as the store holds it at time t: gone once its time to
\* live has passed.
LiveKey(symbol, t) ==
    IF lv_cache[symbol] # None /\ t < Val(lv_cache[symbol]).written_at + LIVE_TTL
    THEN lv_cache[symbol]
    ELSE None

\* MarketDataCache.get_live_price
get_live_price(symbol) ==
    IF LiveKey(symbol, lv_clock) # None
    THEN Some(Val(LiveKey(symbol, lv_clock)).price)
    ELSE None

\* MarketDataCache.get_all_live_prices: one MGET; a symbol without a key is
\* left out of the result.  The model keeps the time of the write beside the
\* price.
get_all_live_prices(symbols) ==
    [s \in symbols |-> LiveKey(s, lv_clock)]

LiveInit ==
    /\ lv_pc = "idle"
    /\ lv_clock = 0
    /\ lv_cache = [s \in LiveSymbols |-> None]
    /\ lv_live_prices = [s \in LiveSymbols |-> None]
    /\ lv_left = {}
    /\ lv_quotes = [s \in LiveSymbols |-> None]
    /\ lv_eval_left = {}
    /\ lv_ticks = 0
    /\ lv_jumps = 0
    /\ h_lv_used = None
    /\ TopIdle
    /\ McIdle
    /\ ApiIdle
    /\ MqIdle
    /\ FbIdle
    /\ PaceIdle
    /\ CkIdle
    /\ TgIdle
    /\ RestIdle
    /\ LimIdle
    /\ StIdle
    /\ RefIdle
    /\ SupIdle
    /\ PredIdle
    /\ StoreIdle
    /\ EvalIdle
    /\ SectorIdle

\* The streamer handles a trade of s: update_live_price(s, p).
LiveWrite(s) ==
    /\ lv_pc # "off"
    /\ \E p \in LivePrices :
         lv_cache' = update_live_price(lv_cache, s, p, lv_clock)
    /\ lv_cache' # lv_cache
    /\ UNCHANGED <<lv_pc, lv_clock, lv_live_prices, lv_left, lv_quotes, lv_eval_left,
                   lv_ticks, lv_jumps, h_lv_used>>
    /\ UNCHANGED <<limVars, stVars, refVars, supVars, topVars, mcVars, apiVars, mqVars, fbVars, paceVars, ckVars, tgVars, restVars>>
    /\ UNCHANGED <<predVars, storeVars, evalVars, histVars, sectorVars>>

\* Time passes between two ticks.
LivePass(d) ==
    /\ lv_pc = "idle"
    /\ lv_jumps < MaxLiveJumps
    /\ lv_jumps' = lv_jumps + 1
    /\ lv_clock' = lv_clock + d
    /\ UNCHANGED <<lv_pc, lv_cache, lv_live_prices, lv_left, lv_quotes, lv_eval_left,
                   lv_ticks, h_lv_used>>
    /\ UNCHANGED <<limVars, stVars, refVars, supVars, topVars, mcVars, apiVars, mqVars, fbVars, paceVars, ckVars, tgVars, restVars>>
    /\ UNCHANGED <<predVars, storeVars, evalVars, histVars, sectorVars>>

\* check_alerts up to `live_prices = await get_all_live_prices(symbols_list)`.
LiveTickLoad ==
    /\ lv_pc = "idle"
    /\ lv_ticks < MaxLiveTicks
    /\ lv_live_prices' = get_all_live_prices(LiveSymbols)
    /\ lv_left' = LiveSymbols
    /\ lv_quotes' = [s \in LiveSymbols |-> None]
    /\ lv_pc' = "quotes"
    /\ UNCHANGED <<lv_clock, lv_cache, lv_eval_left, lv_ticks, lv_jumps, h_lv_used>>
    /\ UNCHANGED <<limVars, stVars, refVars, supVars, topVars, mcVars, apiVars, mqVars, fbVars, paceVars, ckVars, tgVars, restVars>>
    /\ UNCHANGED <<predVars, storeVars, evalVars, histVars, sectorVars>>

\* One iteration of `for symbol in symbols_list`: c is the live price the
\* tick read at its start.  With c and a previous close the quote is built
\* from them; otherwise get_quote is called, which takes time, and a quote
\* it returns is followed by asyncio.sleep(1.1).
LiveQuote(s) ==
    /\ lv_pc = "quotes"
    /\ s \in lv_left
    /\ \E pc_cached \in BOOLEAN :
         IF lv_live_prices[s] # None /\ pc_cached
         THEN /\ lv_quotes' = [lv_quotes EXCEPT ![s] =
                    Some([c |-> Val(lv_live_prices[s]).price,
                          live_written_at |-> Some(Val(lv_live_prices[s]).written_at)])]
              /\ UNCHANGED lv_clock
         ELSE \E answered \in BOOLEAN, d \in LiveLatencies :
                IF answered
                THEN /\ lv_quotes' = [lv_quotes EXCEPT ![s] =
                           Some([c |-> 15000, live_written_at |-> None])]
                     /\ lv_clock' = lv_clock + d + FALLBACK_SLEEP
                ELSE /\ UNCHANGED lv_quotes
                     /\ lv_clock' = lv_clock + d
    /\ lv_left' = lv_left \ {s}
    /\ IF lv_left' = {}
       THEN lv_pc' = "eval" /\ lv_eval_left' = LiveSymbols
       ELSE UNCHANGED <<lv_pc, lv_eval_left>>
    /\ UNCHANGED <<lv_cache, lv_live_prices, lv_ticks, lv_jumps, h_lv_used>>
    /\ UNCHANGED <<limVars, stVars, refVars, supVars, topVars, mcVars, apiVars, mqVars, fbVars, paceVars, ckVars, tgVars, restVars>>
    /\ UNCHANGED <<predVars, storeVars, evalVars, histVars, sectorVars>>

\* The alerts of s are evaluated against quotes[s]; when its "c" is a live
\* price, the history records how old that price is now.
LiveEval(s) ==
    /\ lv_pc = "eval"
    /\ s \in lv_eval_left
    /\ IF lv_quotes[s] # None /\ Val(lv_quotes[s]).live_written_at # None
       THEN h_lv_used' =
               Some([symbol |-> s,
                     age |-> lv_clock - Val(Val(lv_quotes[s]).live_written_at)])
       ELSE UNCHANGED h_lv_used
    /\ lv_eval_left' = lv_eval_left \ {s}
    /\ IF lv_eval_left' = {}
       THEN lv_pc' = "idle" /\ lv_ticks' = lv_ticks + 1
       ELSE UNCHANGED <<lv_pc, lv_ticks>>
    /\ UNCHANGED <<lv_clock, lv_cache, lv_live_prices, lv_left, lv_quotes, lv_jumps>>
    /\ UNCHANGED <<limVars, stVars, refVars, supVars, topVars, mcVars, apiVars, mqVars, fbVars, paceVars, ckVars, tgVars, restVars>>
    /\ UNCHANGED <<predVars, storeVars, evalVars, histVars, sectorVars>>

LiveNext ==
    \/ \E s \in LiveSymbols : LiveWrite(s)
    \/ \E d \in LiveJumps : LivePass(d)
    \/ LiveTickLoad
    \/ \E s \in LiveSymbols : LiveQuote(s)
    \/ \E s \in LiveSymbols : LiveEval(s)

SpecLive == LiveInit /\ [][LiveNext]_vars

\* C20: get_live_price and get_all_live_prices return a price only during
\* the 300 s after its write, and no tick evaluates an alert against a live
\* price that is older than 300 s.
C20_LiveFreshness ==
    /\ \A s \in LiveSymbols :
          /\ get_live_price(s) # None =>
                lv_clock - Val(lv_cache[s]).written_at < 3000
          /\ get_all_live_prices(LiveSymbols)[s] # None =>
                lv_clock - Val(lv_cache[s]).written_at < 3000
    /\ h_lv_used # None => Val(h_lv_used).age <= 3000

(***************************************************************************)
(* SpecCache: the five operations of MarketDataCache, one call at a time,  *)
(* over a backend that may raise during any call.                          *)
(***************************************************************************)
MaxCacheCalls == 3

McSymbols == {"AAPL", "TSLA"}

McPrices == {15000, 15100}

\* The symbol lists get_all_live_prices is called with.
McSymbolLists == {<<>>, <<"AAPL">>, <<"TSLA", "AAPL">>}

McCall(name, symbols, price) == [name |-> name, symbols |-> symbols, price |-> price]

\* The calls the streamer, the refresher and the evaluators make.
McCalls ==
    {McCall(n, <<s>>, p) :
        n \in {"update_live_price", "cache_previous_close"}, s \in McSymbols, p \in McPrices}
    \cup {McCall(n, <<s>>, 0) : n \in {"get_live_price", "get_previous_close"}, s \in McSymbols}
    \cup {McCall("get_all_live_prices", l, 0) : l \in McSymbolLists}

\* What a call leaves behind: how it ended, its value and the store.
McOutcome(status, value, store) == [status |-> status, value |-> value, store |-> store]

\* The `except Exception` clause of an operation: the error is logged or
\* dropped and the operation returns its fallback; nothing was written.
OnBackendErrorMutRaise(fallback, store) == McOutcome("raised", fallback, store)

OnBackendError(fallback, store) == McOutcome("returned", fallback, store)

\* The result of get_all_live_prices from the values MGET returned: the
\* symbols whose value is not None.
McLiveMap(store, symbols) ==
    [s \in {x \in Range(symbols) : store.live[x] # None} |-> Val(store.live[s])]

\* One operation of MarketDataCache, as its try block and its except clause.
\* A write returns None; a read returns None or <<price>>; get_all_live_prices
\* returns a map and does not touch the backend for an empty list.
CacheOperation(op, store, raises) ==
    LET s == IF op.symbols = <<>> THEN "" ELSE op.symbols[1] IN
    CASE op.name = "update_live_price" ->
           IF raises THEN OnBackendError(None, store)
           ELSE McOutcome("returned", None,
                          [store EXCEPT !.live[s] = Some(op.price)])
      [] op.name = "cache_previous_close" ->
           IF raises THEN OnBackendError(None, store)
           ELSE McOutcome("returned", None,
                          [store EXCEPT !.prev[s] = Some(op.price)])
      [] op.name = "get_live_price" ->
           IF raises THEN OnBackendError(None, store)
           ELSE McOutcome("returned", store.live[s], store)
      [] op.name = "get_previous_close" ->
           IF raises THEN OnBackendError(None, store)
           ELSE McOutcome("returned", store.prev[s], store)
      [] op.name = "get_all_live_prices" ->
           IF op.symbols = <<>> THEN McOutcome("returned", <<>>, store)
           ELSE IF raises THEN OnBackendError(<<>>, store)
           ELSE McOutcome("returned", McLiveMap(store, op.symbols), store)

McInit ==
    /\ mc_pc = "idle"
    /\ mc_op = None
    /\ mc_raises = FALSE
    /\ mc_store = [live |-> [s \in McSymbols |-> None], prev |-> [s \in McSymbols |-> None]]
    /\ mc_result = None
    /\ mc_calls = 0
    /\ h_mc_before = mc_store
    /\ TopIdle
    /\ LiveIdle
    /\ ApiIdle
    /\ MqIdle
    /\ FbIdle
    /\ PaceIdle
    /\ CkIdle
    /\ TgIdle
    /\ RestIdle
    /\ LimIdle
    /\ StIdle
    /\ RefIdle
    /\ SupIdle
    /\ PredIdle
    /\ StoreIdle
    /\ EvalIdle
    /\ SectorIdle

\* A caller enters an operation; the backend will serve it or raise.
McEnter ==
    /\ mc_pc \in {"idle", "returned"}
    /\ mc_calls < MaxCacheCalls
    /\ \E op \in McCalls : mc_op' = Some(op)
    /\ mc_raises' \in BOOLEAN
    /\ mc_pc' = "called"
    /\ mc_result' = None
    /\ h_mc_before' = mc_store
    /\ UNCHANGED <<mc_store, mc_calls>>
    /\ UNCHANGED <<limVars, stVars, refVars, supVars, topVars, liveVars, apiVars, mqVars, fbVars, paceVars, ckVars, tgVars, restVars>>
    /\ UNCHANGED <<predVars, storeVars, evalVars, histVars, sectorVars>>

\* The operation runs to its return, or an exception leaves it.
McLeave ==
    /\ mc_pc = "called"
    /\ LET out == CacheOperation(Val(mc_op), mc_store, mc_raises) IN
         /\ mc_pc' = out.status
         /\ mc_result' = out.value
         /\ mc_store' = out.store
    /\ mc_calls' = mc_calls + 1
    /\ UNCHANGED <<mc_op, mc_raises, h_mc_before>>
    /\ UNCHANGED <<limVars, stVars, refVars, supVars, topVars, liveVars, apiVars, mqVars, fbVars, paceVars, ckVars, tgVars, restVars>>
    /\ UNCHANGED <<predVars, storeVars, evalVars, histVars, sectorVars>>

McNext == McEnter \/ McLeave

SpecCache == McInit /\ [][McNext]_vars

\* C21: no exception of the backend leaves a MarketDataCache operation, and
\* an operation during which the backend raised returns absent (the empty
\* map for get_all_live_prices) and has written nothing.
C21_FailSoft ==
    /\ mc_pc # "raised"
    /\ (mc_pc = "returned" /\ mc_raises) =>
          /\ mc_store = h_mc_before
          /\ mc_result = <<>>

\* The backend raised during a get_all_live_prices over symbols that have a
\* live price.
C21_Witness ==
    /\ mc_pc = "returned"
    /\ mc_raises
    /\ Val(mc_op).name = "get_all_live_prices"
    /\ Val(mc_op).symbols # <<>>
    /\ \A s \in Range(Val(mc_op).symbols) : mc_store.live[s] # None
    /\ mc_result = <<>>

(***************************************************************************)
(* SpecApi: the reads of StockAPIService against a vendor that may fail in *)
(* transport, answer with an error status, or send any of a few bodies.    *)
(* Python values are tagged: None, a dict (a function of its keys) or a     *)
(* list.  Times are in seconds.                                             *)
(***************************************************************************)
\* CACHE_TTL = 300
CACHE_TTL == 300

MaxApiCalls == 3

MaxApiJumps == 2

PyNone == [t |-> "None", v |-> <<>>]

PyDict(f) == [t |-> "dict", v |-> f]

PyList(s) == [t |-> "list", v |-> s]

\* bool(x) of Python for these values
PyTruthy(x) == x.t # "None" /\ x.v # <<>>

\* d.get(key), None when d has no such key
PyGet(d, key) == IF key \in DOMAIN d.v THEN d.v[key] ELSE PyNone

\* d.get(key) == x, for x other than None
PyGetIs(d, key, x) == key \in DOMAIN d.v /\ d.v[key] = x

ApiMethods ==
    {"get_quote", "get_company_profile", "get_basic_financials",
     "get_recommendation_trends", "search_symbols", "get_historical_data"}

ApiSymbols == {"AAPL", "aapl", "TSLA"}

ApiKeys == {"AAPL", "TSLA"}

\* symbol.upper()
Upper(symbol) == IF symbol = "aapl" THEN "AAPL" ELSE symbol

\* Bodies the vendor may send with status 200, per endpoint: the empty
\* object, the answer for a symbol it has no data for, and an answer with data.
ApiBodies(method) ==
    {PyDict(<<>>)} \cup
    CASE method = "get_quote" ->
           {PyDict([c |-> 0, pc |-> 0]), PyDict([c |-> 15000, pc |-> 14900])}
      [] method = "get_company_profile" ->
           {PyDict([name |-> 1])}
      [] method = "get_basic_financials" ->
           {PyDict([metric |-> PyDict(<<>>)]), PyDict([metric |-> PyDict([beta |-> 1])])}
      [] method = "get_recommendation_trends" ->
           {PyList(<<>>), PyList(<<PyDict([buy |-> 3])>>)}
      [] method = "search_symbols" ->
           {PyDict([result |-> PyList(<<>>)]),
            PyDict([result |-> PyList(<<PyDict([symbol |-> 1])>>)])}
      [] method = "get_historical_data" ->
           {PyDict([s |-> "no_data"]), PyDict([s |-> "ok"])}

\* What self.client.get, raise_for_status and response.json() give: an
\* exception of the transport, of the status, or of the JSON parser, or
\* the parsed body.
ApiFailures == {"transport_error", "http_error", "invalid_json"}

ApiResponse(kind, data) == [kind |-> kind, data |-> data]

ApiResponses(method) ==
    {ApiResponse(k, PyNone) : k \in ApiFailures}
    \cup {ApiResponse("json", b) : b \in ApiBodies(method)}

\* The value a method returns without a completed request.
ApiAbsent(method) == IF method = "search_symbols" THEN PyList(<<>>) ELSE PyNone

\* How a call ends: returned or raised, with its value.
ApiOutcome(status, value) == [status |-> status, value |-> value]

\* The `except Exception` clause of a method: log, return None ([] for
\* search_symbols).
OnApiErrorMutRaise(method) == ApiOutcome("raised", ApiAbsent(method))

OnApiError(method) == ApiOutcome("returned", ApiAbsent(method))

\* What a method returns for the parsed body `data`.  A body that is not a
\* dict makes data.get raise AttributeError inside the try.
ApiReturn(method, data) ==
    CASE method = "get_quote" ->
           IF data.t # "dict" THEN OnApiError(method)
           ELSE IF PyGetIs(data, "c", 0) THEN ApiOutcome("returned", PyNone)
           ELSE ApiOutcome("returned", data)
      [] method = "get_company_profile" ->
           ApiOutcome("returned", IF PyTruthy(data) THEN data ELSE PyNone)
      [] method = "get_basic_financials" ->
           IF ~PyTruthy(data) THEN ApiOutcome("returned", PyNone)
           ELSE IF data.t # "dict" THEN OnApiError(method)
           ELSE ApiOutcome("returned", PyGet(data, "metric"))
      [] method = "get_recommendation_trends" ->
           ApiOutcome("returned",
                      IF data.t = "list" /\ Len(data.v) > 0 THEN data ELSE PyNone)
      [] method = "search_symbols" ->
           IF data.t # "dict" THEN OnApiError(method)
           ELSE ApiOutcome("returned",
                           IF "result" \in DOMAIN data.v THEN data.v["result"]
                           ELSE PyList(<<>>))
      [] method = "get_historical_data" ->
           IF data.t # "dict" THEN OnApiError(method)
           ELSE IF PyGetIs(data, "s", "no_data") THEN ApiOutcome("returned", PyNone)
           ELSE ApiOutcome("returned", data)

\* The whole try / except of a method for one response.
ApiHandle(method, response) ==
    IF response.kind \in ApiFailures
    THEN OnApiError(method)
    ELSE ApiReturn(method, response.data)

\* What a method stores in its memoization cache for the parsed body: the
\* profile when it is truthy, the "metric" object when it is truthy.
ApiStored(method, data) ==
    CASE method = "get_company_profile" -> IF PyTruthy(data) THEN data ELSE PyNone
      [] method = "get_basic_financials" ->
           IF PyTruthy(data) /\ data.t = "dict" /\ PyTruthy(PyGet(data, "metric"))
           THEN PyGet(data, "metric") ELSE PyNone
      [] OTHER -> PyNone

\* StockAPIService._get_cached at time t
MemoTTLMutForever(entry, t) == TRUE

MemoFresh(entry, t) == t - entry.at < CACHE_TTL

GetCached(cache, key, t) ==
    IF cache[key] # None /\ MemoFresh(Val(cache[key]), t)
    THEN Some(Val(cache[key]).data)
    ELSE None

\* The memoization cache a method consults before its request, if any.
ApiMemo(method) ==
    CASE method = "get_company_profile" -> Some(api_profile_cache)
      [] method = "get_basic_financials" -> Some(api_financials_cache)
      [] OTHER -> None

ApiInit ==
    /\ api_pc = "idle"
    /\ api_call = None
    /\ api_result = PyNone
    /\ api_clock = 0
    /\ api_profile_cache = [k \in ApiKeys |-> None]
    /\ api_financials_cache = [k \in ApiKeys |-> None]
    /\ api_requests = 0
    /\ api_permits = 0
    /\ api_calls = 0
    /\ api_jumps = 0
    /\ h_api_response = None
    /\ TopIdle
    /\ LiveIdle
    /\ McIdle
    /\ MqIdle
    /\ FbIdle
    /\ PaceIdle
    /\ CkIdle
    /\ TgIdle
    /\ RestIdle
    /\ LimIdle
    /\ StIdle
    /\ RefIdle
    /\ SupIdle
    /\ PredIdle
    /\ StoreIdle
    /\ EvalIdle
    /\ SectorIdle

\* A method is entered.  get_company_profile and get_basic_financials return
\* a fresh cached value at once; every other call takes a permit of the
\* limiter and sends its request.
ApiEnter(method, symbol) ==
    /\ api_pc \in {"idle", "returned"}
    /\ api_calls < MaxApiCalls
    /\ api_call' = Some([method |-> method, symbol |-> symbol])
    /\ h_api_response' = None
    /\ LET cached == IF ApiMemo(method) = None THEN None
                     ELSE GetCached(Val(ApiMemo(method)), Upper(symbol), api_clock)
       IN IF cached # None
          THEN /\ api_result' = Val(cached)
               /\ api_pc' = "returned"
               /\ api_calls' = api_calls + 1
               /\ UNCHANGED <<api_requests, api_permits>>
          ELSE /\ api_pc' = "fetching"
               /\ api_permits' = api_permits + 1
               /\ api_requests' = api_requests + 1
               /\ UNCHANGED <<api_result, api_calls>>
    /\ UNCHANGED <<api_clock, api_profile_cache, api_financials_cache, api_jumps>>
    /\ UNCHANGED <<limVars, stVars, refVars, supVars, topVars, liveVars, mcVars, mqVars, fbVars, paceVars, ckVars, tgVars, restVars>>
    /\ UNCHANGED <<predVars, storeVars, evalVars, histVars, sectorVars>>

\* The request of the call in progress ends and the method returns.
ApiRespond ==
    /\ api_pc = "fetching"
    /\ LET method == Val(api_call).method
           key == Upper(Val(api_call).symbol)
       IN \E response \in ApiResponses(method) :
            LET out == ApiHandle(method, response)
                stored == IF response.kind = "json"
                          THEN ApiStored(method, response.data) ELSE PyNone
                entry == Some([at |-> api_clock, data |-> stored])
            IN /\ h_api_response' = Some(response)
               /\ api_pc' = out.status
               /\ api_result' = out.value
               /\ api_profile_cache' =
                     IF method = "get_company_profile" /\ stored # PyNone
                     THEN [api_profile_cache EXCEPT ![key] = entry]
                     ELSE api_profile_cache
               /\ api_financials_cache' =
                     IF method = "get_basic_financials" /\ stored # PyNone
                     THEN [api_financials_cache EXCEPT ![key] = entry]
                     ELSE api_financials_cache
    /\ api_calls' = api_calls + 1
    /\ UNCHANGED <<api_call, api_clock, api_requests, api_permits, api_jumps>>
    /\ UNCHANGED <<limVars, stVars, refVars, supVars, topVars, liveVars, mcVars, mqVars, fbVars, paceVars, ckVars, tgVars, restVars>>
    /\ UNCHANGED <<predVars, storeVars, evalVars, histVars, sectorVars>>

\* Time passes between two calls.
ApiPass(d) ==
    /\ api_pc \in {"idle", "returned"}
    /\ api_jumps < MaxApiJumps
    /\ api_jumps' = api_jumps + 1
    /\ api_clock' = api_clock + d
    /\ UNCHANGED <<api_pc, api_call, api_result, api_profile_cache,
                   api_financials_cache, api_requests, api_permits, api_calls,
                   h_api_response>>
    /\ UNCHANGED <<limVars, stVars, refVars, supVars, topVars, liveVars, mcVars, mqVars, fbVars, paceVars, ckVars, tgVars, restVars>>
    /\ UNCHANGED <<predVars, storeVars, evalVars, histVars, sectorVars>>

ApiJumps == {1, CACHE_TTL - 1}

ApiNext ==
    \/ \E method \in ApiMethods, symbol \in ApiSymbols : ApiEnter(method, symbol)
    \/ ApiRespond
    \/ \E d \in ApiJumps : ApiPass(d)

SpecApi == ApiInit /\ [][ApiNext]_vars

ApiEntered == api_pc # "fetching" /\ (api_pc' = "fetching" \/ api_calls' # api_calls)

\* C29: a call of get_company_profile or get_basic_financials for a symbol
\* whose payload was stored less than 300 s ago, in any letter case, returns
\* that payload without a request or a permit; 300 s or more after the store,
\* or with nothing stored, it sends a request.  Only a non-empty payload
\* that such a call fetched is ever stored, and get_quote always sends its
\* request and leaves both caches as they are.
C29_Memoization ==
    /\ [](\A k \in ApiKeys :
            /\ api_profile_cache[k] # None => PyTruthy(Val(api_profile_cache[k]).data)
            /\ api_financials_cache[k] # None => PyTruthy(Val(api_financials_cache[k]).data))
    /\ [][ApiEntered =>
            LET method == Val(api_call').method
                key == Upper(Val(api_call').symbol)
                cache == IF method = "get_company_profile"
                         THEN api_profile_cache ELSE api_financials_cache
            IN IF method \in {"get_company_profile", "get_basic_financials"}
                  /\ cache[key] # None
                  /\ api_clock - Val(cache[key]).at < 300
               THEN /\ api_pc' = "returned"
                    /\ api_result' = Val(cache[key]).data
                    /\ api_requests' = api_requests
                    /\ api_permits' = api_permits
               ELSE /\ api_pc' = "fetching"
                    /\ api_requests' = api_requests + 1
                    /\ api_permits' = api_permits + 1]_vars
    /\ [][<<api_profile_cache, api_financials_cache>>' #
             <<api_profile_cache, api_financials_cache>> =>
            /\ api_pc = "fetching"
            /\ Val(api_call).method \in {"get_company_profile", "get_basic_financials"}
            /\ Val(h_api_response').kind = "json"
            /\ api_pc' = "returned"
            /\ PyTruthy(api_result')
            /\ LET key == Upper(Val(api_call).symbol)
                   entry == Some([at |-> api_clock, data |-> api_result'])
               IN IF Val(api_call).method = "get_company_profile"
                  THEN /\ api_profile_cache' = [api_profile_cache EXCEPT ![key] = entry]
                       /\ api_financials_cache' = api_financials_cache
                  ELSE /\ api_financials_cache' = [api_financials_cache EXCEPT ![key] = entry]
                       /\ api_profile_cache' = api_profile_cache]_vars

\* The profile of AAPL was fetched once and stored; a second call was served
\* from the store without a request; now, 300 s after the store, a call for
\* "aapl" has sent the second request.
C29_Witness ==
    /\ api_pc = "fetching"
    /\ Val(api_call) = [method |-> "get_company_profile", symbol |-> "aapl"]
    /\ api_profile_cache["AAPL"] # None
    /\ api_clock - Val(api_profile_cache["AAPL"]).at = 300
    /\ api_profile_cache["TSLA"] = None
    /\ \A k \in ApiKeys : api_financials_cache[k] = None
    /\ api_calls = 2
    /\ api_requests = 2

(***************************************************************************)
(* SpecFanout: get_multiple_quotes.  One get_quote task per listed symbol  *)
(* runs under asyncio.gather; the tasks finish in any order.               *)
(***************************************************************************)
\* Longest list of symbols passed to get_multiple_quotes.
MaxFanout == 3

MqSymbols == {"AAPL", "TSLA"}

\* The quote the vendor has for a symbol.
MqQuoteOf(s) ==
    PyDict([c |-> IF s = "AAPL" THEN 15000 ELSE 70000, pc |-> 14900])

\* What the request of get_quote(s) may receive.
MqResponses(s) ==
    {ApiResponse(k, PyNone) : k \in ApiFailures}
    \cup {ApiResponse("json", PyDict([c |-> 0, pc |-> 0])),
          ApiResponse("json", MqQuoteOf(s))}

MqLists == UNION {[1..n -> MqSymbols] : n \in 0..MaxFanout}

\* zip(symbols, quotes): gather returns the results in the order of the
\* tasks it was given, whatever the order they finished in.
ZippedQuoteMutReversed(qs, i) == qs[Len(qs) + 1 - i]

ZippedQuote(qs, i) == qs[i]

\* for symbol, quote in zip(symbols, quotes): if quote: results[symbol] = quote
\* A later entry of the list overwrites an earlier one of the same symbol.
RECURSIVE MqCollect(_, _, _, _)
MqCollect(results, symbols, qs, i) ==
    IF i > Len(symbols) THEN results
    ELSE LET quote == ZippedQuote(qs, i) IN
         IF PyTruthy(quote)
         THEN MqCollect([s \in DOMAIN results \cup {symbols[i]} |->
                            IF s = symbols[i] THEN quote ELSE results[s]],
                        symbols, qs, i + 1)
         ELSE MqCollect(results, symbols, qs, i + 1)

MqInit ==
    /\ mq_pc = "idle"
    /\ mq_symbols = <<>>
    /\ mq_pending = {}
    /\ mq_quotes = <<>>
    /\ mq_results = <<>>
    /\ h_mq_responses = <<>>
    /\ TopIdle
    /\ LiveIdle
    /\ McIdle
    /\ ApiIdle
    /\ FbIdle
    /\ PaceIdle
    /\ CkIdle
    /\ TgIdle
    /\ RestIdle
    /\ LimIdle
    /\ StIdle
    /\ RefIdle
    /\ SupIdle
    /\ PredIdle
    /\ StoreIdle
    /\ EvalIdle
    /\ SectorIdle

\* tasks = [self.get_quote(symbol) for symbol in symbols]; gather starts them.
MqStart ==
    /\ mq_pc = "idle"
    /\ mq_symbols' \in MqLists
    /\ mq_pending' = DOMAIN mq_symbols'
    /\ mq_quotes' = [i \in DOMAIN mq_symbols' |-> PyNone]
    /\ h_mq_responses' = [i \in DOMAIN mq_symbols' |-> None]
    /\ mq_pc' = "gather"
    /\ UNCHANGED mq_results
    /\ UNCHANGED <<limVars, stVars, refVars, supVars, topVars, liveVars, mcVars, apiVars, fbVars, paceVars, ckVars, tgVars, restVars>>
    /\ UNCHANGED <<predVars, storeVars, evalVars, histVars, sectorVars>>

\* The get_quote of task i returns.
MqTaskReturns(i) ==
    /\ mq_pc = "gather"
    /\ i \in mq_pending
    /\ \E response \in MqResponses(mq_symbols[i]) :
         /\ h_mq_responses' = [h_mq_responses EXCEPT ![i] = Some(response)]
         /\ mq_quotes' = [mq_quotes EXCEPT ![i] = ApiHandle("get_quote", response).value]
    /\ mq_pending' = mq_pending \ {i}
    /\ UNCHANGED <<mq_pc, mq_symbols, mq_results>>
    /\ UNCHANGED <<limVars, stVars, refVars, supVars, topVars, liveVars, mcVars, apiVars, fbVars, paceVars, ckVars, tgVars, restVars>>
    /\ UNCHANGED <<predVars, storeVars, evalVars, histVars, sectorVars>>

\* gather returns and the results are collected.
MqCollectResults ==
    /\ mq_pc = "gather"
    /\ mq_pending = {}
    /\ mq_results' = MqCollect(<<>>, mq_symbols, mq_quotes, 1)
    /\ mq_pc' = "returned"
    /\ UNCHANGED <<mq_symbols, mq_pending, mq_quotes, h_mq_responses>>
    /\ UNCHANGED <<limVars, stVars, refVars, supVars, topVars, liveVars, mcVars, apiVars, fbVars, paceVars, ckVars, tgVars, restVars>>
    /\ UNCHANGED <<predVars, storeVars, evalVars, histVars, sectorVars>>

MqNext ==
    \/ MqStart
    \/ \E i \in 1..MaxFanout : MqTaskReturns(i)
    \/ MqCollectResults

SpecFanout == MqInit /\ [][MqNext]_vars

\* C23: a get_quote whose body has c = 0 returns None, and the map
\* get_multiple_quotes returns has as keys exactly the listed symbols for
\* which some task's get_quote returned a quote, each mapped to the vendor's
\* quote of that very symbol.
C23_QuotesByOwnSymbol ==
    /\ \A i \in DOMAIN mq_symbols :
          (i \notin mq_pending /\ mq_pc # "idle"
             /\ Val(h_mq_responses[i]).kind = "json"
             /\ Val(h_mq_responses[i]).data.v["c"] = 0) =>
             mq_quotes[i] = PyNone
    /\ mq_pc = "returned" =>
          /\ DOMAIN mq_results =
                {mq_symbols[i] : i \in {j \in DOMAIN mq_symbols : mq_quotes[j] # PyNone}}
          /\ \A s \in DOMAIN mq_results : mq_results[s] = MqQuoteOf(s)

\* Three tasks, the middle one without data, and both symbols present.
C23_Witness ==
    /\ mq_pc = "returned"
    /\ mq_symbols = <<"TSLA", "AAPL", "AAPL">>
    /\ mq_quotes[2] = PyNone
    /\ Val(h_mq_responses[2]).kind = "json"
    /\ DOMAIN mq_results = {"AAPL", "TSLA"}

(***************************************************************************)
(* SpecRefresher: DailyMaintenance and the previous-close keys of the      *)
(* cache.  Times are in tenths of a second; the clock counts from 00:00 of *)
(* the day the worker starts.  Reads of the key-value store do not fail;   *)
(* a write may fail, and then the symbol does not count as succeeded.      *)
(***************************************************************************)
\* setex(key, 86400, value): the key's time to live.
PREV_TTL == 864000

\* await asyncio.sleep(1.1)
REFRESH_SLEEP == 11

\* self.target_time = time(6, 0), and the length of a day.
TARGET_TIME == 216000

DAY == 864000

\* Clock jumps while the job sleeps until its target, its wake-ups included.
MaxRefJumps == 2

RefJumps == {36000, DAY - REFRESH_SLEEP, DAY}

\* The moment the worker starts: 05:00, 06:00:00.0 or half a second later.
RefStarts == {TARGET_TIME - 36000, TARGET_TIME, TARGET_TIME + 5}

RefSymbols == {"AAPL", "TSLA"}

\* What get_all_active_symbols returns.
RefSymbolSets == {{}, {"AAPL"}, {"AAPL", "TSLA"}}

\* What stock_api.get_quote returns: None, or a quote whose "pc" is missing,
\* zero or a price; and the time the call takes.
RefQuotes ==
    {None, Some([pc |-> None]), Some([pc |-> Some(0)]), Some([pc |-> Some(18000)])}

RefLatencies == {0, 10}

\* By how much asyncio.sleep(wait_seconds) may return late.
RefOvershoots == {0, 5}

\* `if quote and quote.get("pc")`
RefSucceeded(quote) == quote # None /\ Truthy(Val(quote).pc)

\* How one iteration of the run's loop can go: get_quote raises, or returns
\* one of the quotes; the write of a quote with a previous close is stored,
\* or fails inside cache_previous_close.
RefOutcomes ==
    {o \in [raised : BOOLEAN, quote : RefQuotes, stored : BOOLEAN] :
        /\ o.raised => (o.quote = None /\ o.stored)
        /\ ~RefSucceeded(o.quote) => o.stored}

\* MarketDataCache.cache_previous_close at time t
cache_previous_close(cache, symbol, price, t) ==
    [cache EXCEPT ![symbol] = Some([value |-> price, expires_at |-> t + PREV_TTL])]

\* MarketDataCache.get_previous_close: the key's value until it expires.
get_previous_close(symbol) ==
    IF prev_cache[symbol] # None /\ ref_clock < Val(prev_cache[symbol]).expires_at
    THEN Some(Val(prev_cache[symbol]).value)
    ELSE None

RefInit ==
    /\ ref_pc = "run"
    /\ ref_left = {}
    /\ ref_ok = {}
    /\ ref_clock \in RefStarts
    /\ ref_target = 0
    /\ ref_jumps = 0
    /\ prev_cache = [s \in RefSymbols |-> None]
    /\ h_ref_done = None
    /\ ref_symbols = {}
    /\ h_ref_attempts = [s \in RefSymbols |-> 0]
    /\ LimIdle
    /\ StIdle
    /\ SupIdle
    /\ ExtIdle
    /\ PredIdle
    /\ StoreIdle
    /\ EvalIdle
    /\ SectorIdle

\* "Daily Maintenance completed.": the run is over at time t.
RefCompleted(t, ok) == Some([at |-> t, ok |-> ok])

\* fetch_and_cache_previous_close starts: symbols = get_all_active_symbols().
RefBegin ==
    /\ ref_pc = "run"
    /\ ref_symbols' \in RefSymbolSets
    /\ ref_left' = ref_symbols'
    /\ h_ref_attempts' = [s \in RefSymbols |-> 0]
    /\ ref_ok' = {}
    /\ IF ref_left' = {}
       THEN /\ ref_pc' = "done"
            /\ h_ref_done' = RefCompleted(ref_clock, {})
       ELSE /\ ref_pc' = "fetch"
            /\ UNCHANGED h_ref_done
    /\ UNCHANGED <<ref_clock, ref_target, ref_jumps, prev_cache>>
    /\ UNCHANGED <<limVars, stVars, supVars, extVars>>
    /\ UNCHANGED <<predVars, storeVars, evalVars, histVars, sectorVars>>

\* What is left of the loop after an iteration on s that wrote nothing:
\* get_quote returned None or a quote without "pc", or raised and the
\* iteration's `except Exception` logged it, or the cache write failed and
\* cache_previous_close logged it.  The loop goes on with the next symbol.
RefAfterFailureMutAbort(left, s) == {}

RefAfterFailure(left, s) == left \ {s}

\* The body of `for symbol in symbols` up to the sleep: get_quote, and the
\* cache write when the quote has a previous close.  get_quote may raise
\* instead of returning, and the write may fail.  The set's iteration order
\* is not fixed by the code.
RefFetch(s) ==
    /\ ref_pc = "fetch"
    /\ s \in ref_left
    /\ h_ref_attempts' = [h_ref_attempts EXCEPT ![s] = @ + 1]
    /\ \E o \in RefOutcomes, d \in RefLatencies :
         /\ ref_clock' = ref_clock + d
         /\ IF ~o.raised /\ RefSucceeded(o.quote) /\ o.stored
            THEN /\ prev_cache' = cache_previous_close(prev_cache, s,
                                                       Val(Val(o.quote).pc), ref_clock')
                 /\ ref_ok' = ref_ok \cup {s}
                 /\ ref_left' = ref_left \ {s}
            ELSE /\ UNCHANGED <<prev_cache, ref_ok>>
                 /\ ref_left' = RefAfterFailure(ref_left, s)
    /\ ref_pc' = "sleep"
    /\ UNCHANGED <<ref_symbols, ref_target, ref_jumps, h_ref_done>>
    /\ UNCHANGED <<limVars, stVars, supVars, extVars>>
    /\ UNCHANGED <<predVars, storeVars, evalVars, histVars, sectorVars>>

\* await asyncio.sleep(1.1) after every symbol; after the last one the run
\* logs its completion and returns.
RefSleep ==
    /\ ref_pc = "sleep"
    /\ ref_clock' = ref_clock + REFRESH_SLEEP
    /\ IF ref_left = {}
       THEN /\ ref_pc' = "done"
            /\ h_ref_done' = RefCompleted(ref_clock', ref_ok)
       ELSE /\ ref_pc' = "fetch"
            /\ UNCHANGED h_ref_done
    /\ UNCHANGED <<ref_left, ref_ok, ref_target, ref_jumps, prev_cache>>
    /\ UNCHANGED <<ref_symbols, h_ref_attempts>>
    /\ UNCHANGED <<limVars, stVars, supVars, extVars>>
    /\ UNCHANGED <<predVars, storeVars, evalVars, histVars, sectorVars>>

\* Today's 06:00 for the clock value t.
TargetToday(t) == DAY * (t \div DAY) + TARGET_TIME

\* run_forever computes the time of the next run.  When today's 06:00 has
\* passed it asks for target.replace(day=target.day + 1), which raises
\* ValueError on the last day of a month; nothing in run_forever catches it.
RefSchedule ==
    /\ ref_pc = "done"
    /\ IF ref_clock >= TargetToday(ref_clock)
       THEN \E last_day_of_month \in BOOLEAN :
              IF last_day_of_month
              THEN /\ ref_pc' = "raised"
                   /\ UNCHANGED ref_target
              ELSE /\ ref_pc' = "wait"
                   /\ ref_target' = TargetToday(ref_clock) + DAY
       ELSE /\ ref_pc' = "wait"
            /\ ref_target' = TargetToday(ref_clock)
    /\ UNCHANGED <<ref_left, ref_ok, ref_clock, ref_jumps, prev_cache, h_ref_done>>
    /\ UNCHANGED <<ref_symbols, h_ref_attempts>>
    /\ UNCHANGED <<limVars, stVars, supVars, extVars>>
    /\ UNCHANGED <<predVars, storeVars, evalVars, histVars, sectorVars>>

\* Time passes while the job is in asyncio.sleep(wait_seconds), up to the
\* target, or after run_forever has ended.
RefAdvance(d) ==
    /\ \/ ref_pc = "raised"
       \/ ref_pc = "wait" /\ ref_clock + d <= ref_target
    /\ ref_jumps < MaxRefJumps
    /\ ref_jumps' = ref_jumps + 1
    /\ ref_clock' = ref_clock + d
    /\ UNCHANGED <<ref_pc, ref_left, ref_ok, ref_target, prev_cache, h_ref_done>>
    /\ UNCHANGED <<ref_symbols, h_ref_attempts>>
    /\ UNCHANGED <<limVars, stVars, supVars, extVars>>
    /\ UNCHANGED <<predVars, storeVars, evalVars, histVars, sectorVars>>

\* asyncio.sleep(wait_seconds) returns, at the target or a little later,
\* and the next run starts.
RefWake ==
    /\ ref_pc = "wait"
    /\ ref_jumps < MaxRefJumps
    /\ ref_jumps' = ref_jumps + 1
    /\ \E late \in RefOvershoots :
         ref_clock' = (IF ref_clock > ref_target THEN ref_clock ELSE ref_target) + late
    /\ ref_pc' = "run"
    /\ UNCHANGED <<ref_left, ref_ok, ref_target, prev_cache, h_ref_done>>
    /\ UNCHANGED <<ref_symbols, h_ref_attempts>>
    /\ UNCHANGED <<limVars, stVars, supVars, extVars>>
    /\ UNCHANGED <<predVars, storeVars, evalVars, histVars, sectorVars>>

RefNext ==
    \/ RefBegin
    \/ \E s \in RefSymbols : RefFetch(s)
    \/ RefSleep
    \/ RefSchedule
    \/ \E d \in RefJumps : RefAdvance(d)
    \/ RefWake

SpecRefresher == RefInit /\ [][RefNext]_vars

\* C9: after a refresh run completes, get_previous_close returns a value for
\* every symbol the run succeeded on at every moment of the following 24 h.
C9_WarmFor24h ==
    h_ref_done # None =>
        (ref_clock <= Val(h_ref_done).at + PREV_TTL =>
            \A s \in Val(h_ref_done).ok : get_previous_close(s) # None)

\* The worker started at 05:00: the startup run, the run of 06:00 and the
\* wait for the next day's.
RefEarlyInit ==
    /\ RefInit
    /\ ref_clock = TARGET_TIME - 36000

\* The refresher under the event loop's scheduling: get_quote returns or
\* raises (its HTTP client has a timeout) and asyncio.sleep(1.1) returns.
SpecRefresherFair ==
    /\ RefEarlyInit
    /\ [][RefNext]_vars
    /\ WF_vars(\E s \in RefSymbols : RefFetch(s))
    /\ WF_vars(RefSleep)

\* C18: in a run of fetch_and_cache_previous_close every collected symbol is
\* attempted exactly once, whatever the attempts on the other symbols gave,
\* and the run reaches its completion.
C18_RunCompletes ==
    /\ [](ref_pc \in {"fetch", "sleep"} =>
             \A s \in RefSymbols :
                h_ref_attempts[s] = IF s \in ref_symbols \ ref_left THEN 1 ELSE 0)
    /\ [](ref_pc = "done" =>
             /\ h_ref_done # None
             /\ \A s \in RefSymbols :
                   h_ref_attempts[s] = IF s \in ref_symbols THEN 1 ELSE 0)
    /\ (ref_pc \in {"fetch", "sleep"}) ~> (ref_pc = "done")

\* A run over two symbols completed although one of them failed.
C18_Witness ==
    /\ ref_pc = "done"
    /\ ref_symbols = {"AAPL", "TSLA"}
    /\ Cardinality(ref_ok) = 1
    /\ \A s \in ref_symbols : h_ref_attempts[s] = 1

\* C17: after every completed run, run_forever computes the next occurrence
\* of 06:00 (today's if it has not passed yet, otherwise tomorrow's) and
\* sleeps until then, whatever the date, and the sleep is followed by
\* another run.
C17_DailyRecurrence ==
    /\ [][ref_pc = "done" =>
             /\ ref_pc' = "wait"
             /\ ref_target' = IF ref_clock < TargetToday(ref_clock)
                              THEN TargetToday(ref_clock)
                              ELSE TargetToday(ref_clock) + DAY]_vars
    /\ [][(ref_pc = "wait" /\ ref_pc' # "wait") => ref_pc' = "run"]_vars

\* C40: a symbol the last completed run succeeded on, still in the watched
\* set, is never absent from the cache before the next run has fetched it:
\* while the job waits for its target, when the next run starts, and while
\* that run has not reached the symbol yet, get_previous_close returns a
\* value for it.
C40_NoGapBetweenRuns ==
    h_ref_done # None =>
        \A s \in Val(h_ref_done).ok :
           (\/ ref_pc \in {"done", "wait", "run"}
            \/ ref_pc \in {"fetch", "sleep"} /\ s \in ref_left)
              => get_previous_close(s) # None

(***************************************************************************)
(* SpecSupervisor: main_async and the three loops it gathers.  Each loop   *)
(* is taken one cycle at a time; a cycle's body either completes or raises. *)
(***************************************************************************)
\* Cycles, completed or failed, that each loop may run.
MaxCycles == 2

CHECKER == "checker"

STREAMER == "streamer"

MAINTENANCE == "maintenance"

Loops == {CHECKER, STREAMER, MAINTENANCE}

\* Lengths of the months of the calendar.
MonthLengths == {28, 29, 30, 31}

\* FINNHUB_API_KEY: str = "": the setting is empty unless the environment
\* gives a key.
ApiKeySettings == {"", "key"}

SupInit ==
    /\ sup_task = [t \in Loops |-> "running"]
    /\ sup_cycles = [t \in Loops |-> 0]
    /\ sup_caught = [t \in Loops |-> 0]
    /\ sup_main = "running"
    /\ sup_days_in_month \in MonthLengths
    /\ sup_day \in {1, sup_days_in_month - 1, sup_days_in_month}
    /\ sup_before_six \in BOOLEAN
    /\ sup_api_key \in ApiKeySettings
    /\ LimIdle
    /\ StIdle
    /\ RefIdle
    /\ ExtIdle
    /\ PredIdle
    /\ StoreIdle
    /\ EvalIdle
    /\ SectorIdle

\* One iteration of a loop whose body sits in try / except Exception
\* followed by a sleep: check_alerts_task (alert_checker.py) and
\* connect_and_stream (market_streamer.py).  An exception of the body is
\* logged and the loop goes on.
SupGuardedCycle(t) ==
    /\ sup_task[t] = "running"
    /\ sup_cycles[t] + sup_caught[t] < MaxCycles
    /\ \E raised \in BOOLEAN :
         IF raised
         THEN /\ sup_caught' = [sup_caught EXCEPT ![t] = @ + 1]
              /\ UNCHANGED sup_cycles
         ELSE /\ sup_cycles' = [sup_cycles EXCEPT ![t] = @ + 1]
              /\ UNCHANGED sup_caught
    /\ UNCHANGED <<sup_task, sup_main, sup_day, sup_days_in_month, sup_before_six>>
    /\ UNCHANGED sup_api_key
    /\ UNCHANGED <<limVars, stVars, refVars, extVars>>
    /\ UNCHANGED <<predVars, storeVars, evalVars, histVars, sectorVars>>

\* run_forever, before its loop: the run at startup.  The run catches its
\* own exceptions.
SupMaintenanceStart ==
    /\ sup_task[MAINTENANCE] = "running"
    /\ sup_cycles[MAINTENANCE] = 0
    /\ sup_cycles' = [sup_cycles EXCEPT ![MAINTENANCE] = 1]
    /\ UNCHANGED <<sup_task, sup_caught, sup_main, sup_day, sup_days_in_month,
                   sup_before_six>>
    /\ UNCHANGED sup_api_key
    /\ UNCHANGED <<limVars, stVars, refVars, extVars>>
    /\ UNCHANGED <<predVars, storeVars, evalVars, histVars, sectorVars>>

\* One iteration of run_forever's loop.  Before 06:00 the target is today's
\* 06:00.  Otherwise it is target.replace(day=target.day + 1): on the last
\* day of the month datetime.replace raises ValueError, which run_forever
\* does not catch, and the coroutine ends with it.  With a target, the loop
\* sleeps until then and runs the refresh.
SupMaintenanceCycle ==
    /\ sup_task[MAINTENANCE] = "running"
    /\ sup_cycles[MAINTENANCE] >= 1
    /\ sup_cycles[MAINTENANCE] < MaxCycles + 1
    /\ IF sup_before_six
       THEN /\ sup_before_six' = FALSE
            /\ sup_cycles' = [sup_cycles EXCEPT ![MAINTENANCE] = @ + 1]
            /\ UNCHANGED <<sup_task, sup_day>>
       ELSE IF sup_day + 1 > sup_days_in_month
       THEN /\ sup_task' = [sup_task EXCEPT ![MAINTENANCE] = "failed"]
            /\ UNCHANGED <<sup_cycles, sup_day, sup_before_six>>
       ELSE /\ sup_day' = sup_day + 1
            /\ sup_cycles' = [sup_cycles EXCEPT ![MAINTENANCE] = @ + 1]
            /\ UNCHANGED <<sup_task, sup_before_six>>
    /\ UNCHANGED <<sup_caught, sup_main, sup_days_in_month>>
    /\ UNCHANGED sup_api_key
    /\ UNCHANGED <<limVars, stVars, refVars, extVars>>
    /\ UNCHANGED <<predVars, storeVars, evalVars, histVars, sectorVars>>

\* asyncio.gather without return_exceptions hands the first exception of a
\* loop to main_async, which does not catch it; asyncio.run(main_async())
\* then cancels every task still pending and closes the event loop.
SupPropagate ==
    /\ sup_main = "running"
    /\ \E t \in Loops : sup_task[t] = "failed"
    /\ sup_main' = "raised"
    /\ sup_task' = [t \in Loops |->
                      IF sup_task[t] = "running" THEN "cancelled" ELSE sup_task[t]]
    /\ UNCHANGED <<sup_cycles, sup_caught, sup_day, sup_days_in_month, sup_before_six>>
    /\ UNCHANGED sup_api_key
    /\ UNCHANGED <<limVars, stVars, refVars, extVars>>
    /\ UNCHANGED <<predVars, storeVars, evalVars, histVars, sectorVars>>

SupNext ==
    \/ \E t \in {CHECKER, STREAMER} : SupGuardedCycle(t)
    \/ SupMaintenanceStart
    \/ SupMaintenanceCycle
    \/ SupPropagate

SpecSupervisor == SupInit /\ [][SupNext]_vars

\* C5: a failure in any one of the loops started by main_async does not
\* terminate or cancel the other loops: when a loop has ended with an
\* exception, each of the others is still running.
C5_LoopIsolation ==
    \A t \in Loops :
        sup_task[t] = "failed" => \A u \in Loops \ {t} : sup_task[u] = "running"

\* C19: the alert checker's first cycle starts only after the startup run
\* of the daily refresh has completed: once the checker has been through a
\* cycle, the maintenance loop has its startup run behind it.
C19_RefreshBeforeFirstTick ==
    sup_cycles[CHECKER] + sup_caught[CHECKER] >= 1 => sup_cycles[MAINTENANCE] >= 1

\* C24: with an empty API key the worker does not start: no loop is
\* running and none has been through a cycle.
C24_NoStartWithoutKey ==
    sup_api_key = "" =>
       \A t \in Loops :
          /\ sup_task[t] # "running"
          /\ sup_cycles[t] = 0
          /\ sup_caught[t] = 0

(***************************************************************************)
(* SpecFallback: the quote-building loop that check_alerts and             *)
(* check_sector_strategies share.  A tick loads its active rows, reads the *)
(* live prices of their symbols in one MGET, and for each symbol reads the *)
(* previous close and falls back to stock_api.get_quote on a miss.  Time   *)
(* is in tenths of a second and starts over with each tick.                *)
(***************************************************************************)
MaxFbTicks == 2

FbSymbols == {"AAPL", "TSLA", "MSFT"}

\* The symbols of the active alerts a tick of check_alerts can load, one
\* entry per alert.
FbActiveAlerts ==
    {<<>>, <<"AAPL">>, <<"AAPL", "AAPL">>, <<"AAPL", "TSLA">>,
     <<"TSLA", "AAPL", "MSFT">>}

\* The active strategies a tick of check_sector_strategies can load, each as
\* the symbols of its sector's stocks.
FbActiveStrategies ==
    {<<>>, <<{}>>, <<{"AAPL", "TSLA"}>>, <<{"AAPL", "TSLA"}, {"TSLA", "MSFT"}>>}

\* What the cache holds for a symbol: nothing, or a price.
FbLiveReads == {None, Some(15000)}

FbPrevReads == {None, Some(14900)}

\* What stock_api.get_quote returns: None or a quote.
FbUpstreamQuotes == {None, Some([c |-> Some(15100), pc |-> Some(14900)])}

\* The time a get_quote takes.
FbLatencies == {0, 3}

\* `if c is None or pc is None`
FallbackNeededMutBoth(c, pc) == c = None /\ pc = None

FallbackNeeded(c, pc) == c = None \/ pc = None

FbReturn ==
    /\ fb_pc' = "idle"
    /\ fb_ticks' = fb_ticks + 1

\* The tick begins: its histories start over.
FbBegin(evaluator, loaded, symbols) ==
    /\ fb_pc = "idle"
    /\ fb_ticks < MaxFbTicks
    /\ fb_evaluator' = evaluator
    /\ fb_loaded' = loaded
    /\ fb_symbols' = symbols
    /\ fb_quotes' = <<>>
    /\ fb_clock' = 0
    /\ h_fb_seen' = <<>>
    /\ h_fb_calls' = <<>>

\* `live_prices = await market_data_cache.get_all_live_prices(symbols_list)`,
\* or the return that comes before it when there is nothing to check.
FbReadLive(symbols) ==
    IF symbols = {}
    THEN /\ FbReturn
         /\ fb_left' = {}
         /\ fb_live_prices' = <<>>
         /\ h_fb_reads' = 0
    ELSE /\ fb_pc' = "loop"
         /\ fb_left' = symbols
         /\ \E lp \in [symbols -> FbLiveReads] : fb_live_prices' = lp
         /\ h_fb_reads' = 1
         /\ UNCHANGED fb_ticks

\* check_alerts, lines 146-158.
FbLoadAlerts ==
    /\ \E active \in FbActiveAlerts :
         /\ FbBegin("check_alerts", Len(active), Range(active))
         /\ FbReadLive(Range(active))
    /\ UNCHANGED <<limVars, stVars, refVars, supVars, topVars, liveVars, mcVars, apiVars, mqVars, paceVars, ckVars, tgVars, restVars>>
    /\ UNCHANGED <<predVars, storeVars, evalVars, histVars, sectorVars>>

\* check_sector_strategies, lines 28-47.
FbLoadStrategies ==
    /\ \E active \in FbActiveStrategies :
         LET all_symbols == UNION Range(active)
         IN /\ FbBegin("check_sector_strategies", Len(active), all_symbols)
            /\ FbReadLive(all_symbols)
    /\ UNCHANGED <<limVars, stVars, refVars, supVars, topVars, liveVars, mcVars, apiVars, mqVars, paceVars, ckVars, tgVars, restVars>>
    /\ UNCHANGED <<predVars, storeVars, evalVars, histVars, sectorVars>>

\* One iteration of `for symbol in symbols_list` (check_alerts, lines 162-175;
\* check_sector_strategies, lines 50-63).  Python fixes no order for the
\* list of a set.  A quote that get_quote returns is stored and followed by
\* asyncio.sleep(1.1); after a None the loop goes on at once.
FbSymbol(s) ==
    /\ fb_pc = "loop"
    /\ s \in fb_left
    /\ fb_left' = fb_left \ {s}
    /\ h_fb_reads' = h_fb_reads + 1
    /\ \E pc \in FbPrevReads :
         LET c == fb_live_prices[s]
         IN /\ h_fb_seen' = (s :> [c |-> c, pc |-> pc]) @@ h_fb_seen
            /\ IF FallbackNeeded(c, pc)
               THEN \E quote \in FbUpstreamQuotes, d \in FbLatencies :
                      /\ h_fb_calls' =
                            Append(h_fb_calls,
                                   [symbol |-> s, start |-> fb_clock,
                                    end |-> fb_clock + d,
                                    answered |-> quote # None])
                      /\ IF quote # None
                         THEN /\ fb_quotes' = (s :> Val(quote)) @@ fb_quotes
                              /\ fb_clock' = fb_clock + d + FALLBACK_SLEEP
                         ELSE /\ UNCHANGED fb_quotes
                              /\ fb_clock' = fb_clock + d
               ELSE /\ fb_quotes' = (s :> [c |-> c, pc |-> pc]) @@ fb_quotes
                    /\ UNCHANGED <<fb_clock, h_fb_calls>>
    /\ IF fb_left' = {}
       THEN FbReturn
       ELSE UNCHANGED <<fb_pc, fb_ticks>>
    /\ UNCHANGED <<fb_evaluator, fb_loaded, fb_symbols, fb_live_prices>>
    /\ UNCHANGED <<limVars, stVars, refVars, supVars, topVars, liveVars, mcVars, apiVars, mqVars, paceVars, ckVars, tgVars, restVars>>
    /\ UNCHANGED <<predVars, storeVars, evalVars, histVars, sectorVars>>

FbInit ==
    /\ fb_pc = "idle"
    /\ fb_evaluator = ""
    /\ fb_loaded = 0
    /\ fb_symbols = {}
    /\ fb_left = {}
    /\ fb_live_prices = <<>>
    /\ fb_quotes = <<>>
    /\ fb_clock = 0
    /\ fb_ticks = 0
    /\ h_fb_reads = 0
    /\ h_fb_seen = <<>>
    /\ h_fb_calls = <<>>
    /\ TopIdle
    /\ LiveIdle
    /\ McIdle
    /\ ApiIdle
    /\ MqIdle
    /\ PaceIdle
    /\ CkIdle
    /\ TgIdle
    /\ RestIdle
    /\ LimIdle
    /\ StIdle
    /\ RefIdle
    /\ SupIdle
    /\ PredIdle
    /\ StoreIdle
    /\ EvalIdle
    /\ SectorIdle

FbNext ==
    \/ FbLoadAlerts
    \/ FbLoadStrategies
    \/ \E s \in FbSymbols : FbSymbol(s)

SpecFallback == FbInit /\ [][FbNext]_vars

\* The symbols get_quote was called for in the tick.
FbCalled == {h_fb_calls[i].symbol : i \in DOMAIN h_fb_calls}

\* The symbols the loop reached whose live price or previous close was absent.
FbMissed ==
    {s \in DOMAIN h_fb_seen : h_fb_seen[s].c = None \/ h_fb_seen[s].pc = None}

\* C26: in a tick of either evaluator get_quote is called for a symbol
\* exactly when its live price or its previous close is missing from the
\* cache, once per distinct symbol at most; a tick whose symbols are all
\* cached calls nothing, and a tick that loads no active alert or strategy
\* reads no cache and calls nothing.
C26_FallbackOnlyOnMiss ==
    /\ FbCalled = FbMissed
    /\ Len(h_fb_calls) = Cardinality(FbCalled)
    /\ DOMAIN h_fb_seen \subseteq fb_symbols
    /\ FbMissed = {} => h_fb_calls = <<>>
    /\ fb_loaded = 0 => h_fb_reads = 0 /\ h_fb_calls = <<>>

\* A tick over three alerts' symbols has ended: one symbol was cached whole,
\* one lacked its previous close only and one its live price only, and
\* get_quote was called for the last two.
C26_Witness ==
    /\ fb_pc = "idle"
    /\ fb_ticks >= 1
    /\ fb_evaluator = "check_alerts"
    /\ Cardinality(fb_symbols) = 3
    /\ DOMAIN h_fb_seen = fb_symbols
    /\ Len(h_fb_calls) = 2
    /\ \E s \in fb_symbols : h_fb_seen[s].c # None /\ h_fb_seen[s].pc = None
    /\ \E s \in fb_symbols : h_fb_seen[s].c = None /\ h_fb_seen[s].pc # None
    /\ \E s \in fb_symbols : h_fb_seen[s].c # None /\ h_fb_seen[s].pc # None

\* C27: any two consecutive get_quote calls of a tick are at least 1.1 s
\* apart, whether the earlier one returned a quote or None.
C27_FallbackSpacing ==
    \A i \in 1 .. Len(h_fb_calls) - 1 :
       h_fb_calls[i + 1].start - h_fb_calls[i].end >= FALLBACK_SLEEP

(***************************************************************************)
(* SpecPacing: the requests of one run of fetch_and_cache_previous_close   *)
(* in time.  The symbols are counted, not named; time is in tenths of a    *)
(* second and is kept as durations: since the last call, and since an      *)
(* observer opened a window of one minute at some call of the run.         *)
(***************************************************************************)
MaxPaceSymbols == 60

\* The length of the observer's window: one minute.
MINUTE == 600

\* How many symbols get_all_active_symbols returns.
PaceRunSizes == {0, 1, MaxPaceSymbols}

\* The time a get_quote takes.
PaceLatencies == {0, 10}

\* `await asyncio.sleep(1.1)` stands after the try block: it is reached
\* whether get_quote returned a quote, returned None or raised.
PaceSleepForMutSkip(failed) == IF failed THEN 0 ELSE REFRESH_SLEEP

PaceSleepFor(failed) == REFRESH_SLEEP

\* The observer's window after d more tenths of a second; past its end the
\* elapsed time is no longer told apart.
PaceElapse(window, d) ==
    IF window = None THEN None
    ELSE Some([Val(window) EXCEPT
                 !.elapsed = IF @ + d > MINUTE THEN MINUTE + 1 ELSE @ + d])

\* The observer's window when a request is issued: one it may open now, or
\* the open one with the request counted when it falls inside.
PaceCount(window, open) ==
    IF window = None
    THEN IF open THEN Some([elapsed |-> 0, count |-> 1]) ELSE None
    ELSE IF Val(window).elapsed <= MINUTE
         THEN Some([Val(window) EXCEPT !.count = @ + 1])
         ELSE window

PaceInit ==
    /\ pace_pc = "run"
    /\ pace_left = 0
    /\ h_pace_since = None
    /\ h_pace_failed = FALSE
    /\ h_pace_spacing = None
    /\ h_pace_window = None
    /\ TopIdle
    /\ LiveIdle
    /\ McIdle
    /\ ApiIdle
    /\ MqIdle
    /\ FbIdle
    /\ CkIdle
    /\ TgIdle
    /\ RestIdle
    /\ LimIdle
    /\ StIdle
    /\ RefIdle
    /\ SupIdle
    /\ PredIdle
    /\ StoreIdle
    /\ EvalIdle
    /\ SectorIdle

\* symbols = self.get_all_active_symbols()
PaceBegin ==
    /\ pace_pc = "run"
    /\ \E n \in PaceRunSizes :
         /\ pace_left' = n
         /\ pace_pc' = IF n = 0 THEN "done" ELSE "fetch"
    /\ UNCHANGED <<h_pace_since, h_pace_failed, h_pace_spacing, h_pace_window>>
    /\ UNCHANGED <<limVars, stVars, refVars, supVars, topVars, liveVars, mcVars, apiVars, mqVars, fbVars, ckVars, tgVars, restVars>>
    /\ UNCHANGED <<predVars, storeVars, evalVars, histVars, sectorVars>>

\* The try block of one iteration: get_quote is called, takes d, and ends
\* with a quote that is cached or fails.
PaceFetch ==
    /\ pace_pc = "fetch"
    /\ pace_left > 0
    /\ pace_left' = pace_left - 1
    /\ h_pace_spacing' =
          IF h_pace_since = None THEN None
          ELSE Some([gap |-> Val(h_pace_since), after_failure |-> h_pace_failed])
    /\ \E d \in PaceLatencies, failed \in BOOLEAN, open \in BOOLEAN :
         /\ h_pace_since' = Some(d)
         /\ h_pace_failed' = failed
         /\ h_pace_window' = PaceElapse(PaceCount(h_pace_window, open), d)
    /\ pace_pc' = "sleep"
    /\ UNCHANGED <<limVars, stVars, refVars, supVars, topVars, liveVars, mcVars, apiVars, mqVars, fbVars, ckVars, tgVars, restVars>>
    /\ UNCHANGED <<predVars, storeVars, evalVars, histVars, sectorVars>>

\* await asyncio.sleep(1.1), then the next symbol or the end of the run.
PaceSleep ==
    /\ pace_pc = "sleep"
    /\ h_pace_since' = Some(Val(h_pace_since) + PaceSleepFor(h_pace_failed))
    /\ h_pace_window' = PaceElapse(h_pace_window, PaceSleepFor(h_pace_failed))
    /\ pace_pc' = IF pace_left = 0 THEN "done" ELSE "fetch"
    /\ UNCHANGED <<pace_left, h_pace_failed, h_pace_spacing>>
    /\ UNCHANGED <<limVars, stVars, refVars, supVars, topVars, liveVars, mcVars, apiVars, mqVars, fbVars, ckVars, tgVars, restVars>>
    /\ UNCHANGED <<predVars, storeVars, evalVars, histVars, sectorVars>>

PaceNext ==
    \/ PaceBegin
    \/ PaceFetch
    \/ PaceSleep

SpecPacing == PaceInit /\ [][PaceNext]_vars

\* C28: two consecutive get_quote calls of a run are at least 1.1 s apart,
\* also when the earlier one failed, and no window of 60 s that opens at
\* a call of the run holds more than 58 calls.
C28_RefreshPacing ==
    /\ h_pace_spacing # None => Val(h_pace_spacing).gap >= 11
    /\ h_pace_window # None => Val(h_pace_window).count <= 58

\* A window has closed with 55 calls in it, and the last call came 1.1 s
\* after one that failed at once.
C28_Witness ==
    /\ h_pace_window # None
    /\ Val(h_pace_window).elapsed > MINUTE
    /\ Val(h_pace_window).count = 55
    /\ pace_pc = "sleep"
    /\ h_pace_spacing = Some([gap |-> 11, after_failure |-> TRUE])

(***************************************************************************)
(* SpecChecker: tasks/alert_checker.py, check_alerts_task.  Each tick      *)
(* opens a session, awaits check_alerts and check_sector_strategies under  *)
(* one try / finally that closes the session, and sleeps; an exception of  *)
(* the tick is caught by the outer `except Exception`, a cancellation at   *)
(* an await is not.                                                        *)
(***************************************************************************)
MaxCkTicks == 3

\* How an awaited evaluator can end.
CkOutcomes == {"returned", "raised", "cancelled"}

\* `finally: db.close()`
CloseSessionMutLeak(sessions) == sessions

CloseSession(sessions) == sessions - 1

\* What follows a tick whose alert evaluation has ended in the given way:
\* check_sector_strategies stands in the same try block, after check_alerts.
AfterAlerts(outcome) ==
    CASE outcome = "returned" -> "sectors"
      [] outcome = "raised" -> "sleep"
      [] outcome = "cancelled" -> "cancelled"

CkInit ==
    /\ ck_pc = "top"
    /\ ck_sessions = 0
    /\ ck_ticks = 0
    /\ h_ck_ticks = <<>>
    /\ TopIdle
    /\ LiveIdle
    /\ McIdle
    /\ ApiIdle
    /\ MqIdle
    /\ FbIdle
    /\ PaceIdle
    /\ TgIdle
    /\ RestIdle
    /\ LimIdle
    /\ StIdle
    /\ RefIdle
    /\ SupIdle
    /\ PredIdle
    /\ StoreIdle
    /\ EvalIdle
    /\ SectorIdle

\* db = SessionLocal()
CkOpen ==
    /\ ck_pc = "top"
    /\ ck_ticks < MaxCkTicks
    /\ ck_ticks' = ck_ticks + 1
    /\ ck_sessions' = ck_sessions + 1
    /\ ck_pc' = "alerts"
    /\ h_ck_ticks' = Append(h_ck_ticks, [alerts |-> "running", sectors |-> "skipped"])
    /\ UNCHANGED <<limVars, stVars, refVars, supVars, topVars, liveVars, mcVars, apiVars, mqVars, fbVars, paceVars, tgVars, restVars>>
    /\ UNCHANGED <<predVars, storeVars, evalVars, histVars, sectorVars>>

\* await alert_engine.check_alerts(db), and the finally clause when the
\* await ends the try block.
CkAlerts ==
    /\ ck_pc = "alerts"
    /\ \E outcome \in CkOutcomes :
         /\ ck_pc' = AfterAlerts(outcome)
         /\ ck_sessions' = IF ck_pc' = "sectors" THEN ck_sessions
                           ELSE CloseSession(ck_sessions)
         /\ h_ck_ticks' = [h_ck_ticks EXCEPT ![Len(h_ck_ticks)].alerts = outcome]
    /\ UNCHANGED ck_ticks
    /\ UNCHANGED <<limVars, stVars, refVars, supVars, topVars, liveVars, mcVars, apiVars, mqVars, fbVars, paceVars, tgVars, restVars>>
    /\ UNCHANGED <<predVars, storeVars, evalVars, histVars, sectorVars>>

\* await alert_engine.check_sector_strategies(db), then the finally clause.
CkSectors ==
    /\ ck_pc = "sectors"
    /\ \E outcome \in CkOutcomes :
         /\ ck_pc' = IF outcome = "cancelled" THEN "cancelled" ELSE "sleep"
         /\ h_ck_ticks' = [h_ck_ticks EXCEPT ![Len(h_ck_ticks)].sectors = outcome]
    /\ ck_sessions' = CloseSession(ck_sessions)
    /\ UNCHANGED ck_ticks
    /\ UNCHANGED <<limVars, stVars, refVars, supVars, topVars, liveVars, mcVars, apiVars, mqVars, fbVars, paceVars, tgVars, restVars>>
    /\ UNCHANGED <<predVars, storeVars, evalVars, histVars, sectorVars>>

\* await asyncio.sleep(settings.ALERT_CHECK_INTERVAL), in the try block or
\* in the except clause; the task may be cancelled while it sleeps.
CkSleep ==
    /\ ck_pc = "sleep"
    /\ \E cancelled \in BOOLEAN :
         ck_pc' = IF cancelled THEN "cancelled" ELSE "top"
    /\ UNCHANGED <<ck_sessions, ck_ticks, h_ck_ticks>>
    /\ UNCHANGED <<limVars, stVars, refVars, supVars, topVars, liveVars, mcVars, apiVars, mqVars, fbVars, paceVars, tgVars, restVars>>
    /\ UNCHANGED <<predVars, storeVars, evalVars, histVars, sectorVars>>

CkNext ==
    \/ CkOpen
    \/ CkAlerts
    \/ CkSectors
    \/ CkSleep

SpecChecker == CkInit /\ [][CkNext]_vars

\* C32: the task holds one session while an evaluator of a tick runs and
\* none otherwise: none while it sleeps between ticks, whether the tick
\* ended normally or with an exception, and none after a cancellation
\* inside the tick.
C32_OneSession ==
    /\ ck_sessions \in {0, 1}
    /\ ck_sessions = 1 <=> ck_pc \in {"alerts", "sectors"}

\* The task was cancelled while a later tick awaited the sector evaluation,
\* after a tick whose alert evaluation had raised; no session is open.
C32_Witness ==
    /\ ck_pc = "cancelled"
    /\ Len(h_ck_ticks) >= 2
    /\ h_ck_ticks[1].alerts = "raised"
    /\ h_ck_ticks[Len(h_ck_ticks)].sectors = "cancelled"
    /\ ck_sessions = 0

\* C35: a tick whose alert evaluation raised still runs the sector
\* evaluation, and an exception never ends the loop: after it the task
\* sleeps and begins another tick.
C35_SeparateBoundaries ==
    /\ \A i \in DOMAIN h_ck_ticks :
          h_ck_ticks[i].alerts = "raised" => h_ck_ticks[i].sectors # "skipped"
    /\ (h_ck_ticks # <<>>
          /\ "raised" \in {h_ck_ticks[Len(h_ck_ticks)].alerts,
                           h_ck_ticks[Len(h_ck_ticks)].sectors}
          /\ "cancelled" \notin {h_ck_ticks[Len(h_ck_ticks)].alerts,
                                 h_ck_ticks[Len(h_ck_ticks)].sectors}) =>
          ck_pc \in {"sectors", "sleep", "top", "cancelled"}

(***************************************************************************)
(* SpecTrigger: the loop of check_alerts over active_alerts and            *)
(* _trigger_alert, statement by statement, on a database session whose     *)
(* commits may fail.  The alerts are active and not repeating, each with a *)
(* usable quote.  A commit that fails in its flush leaves the session      *)
(* refusing every further commit until Session.rollback() is called.       *)
(***************************************************************************)
MaxTgAlerts == 2

TgAlerts == 1 .. MaxTgAlerts

\* What can go wrong in one iteration: nothing; check_condition raises; the
\* first commit of _trigger_alert fails; the commit of its Notification
\* fails; the commit of last_checked_at fails.
TgFaults == {"none", "predicate", "commit_status", "commit_notification", "commit_checked"}

\* The session after a commit failed and no rollback followed: a failure in
\* the flush leaves it unusable, a failure after the flush does not.
TgAfterFailedCommit == {"ok", "needs_rollback"}

\* _trigger_alert(alert, current_price, db) on a session in state session,
\* with fault injected: the committed row of the alert, whether its in-app
\* row was committed, and the session afterwards.  The except clause logs,
\* calls db.rollback() and returns normally.
TriggerAlert(row, session, fault) ==
    IF session = "needs_rollback" \/ fault = "commit_status"
    THEN [row |-> row, notified |-> FALSE, session |-> "ok"]
    ELSE [row |-> [row EXCEPT !.status = TRIGGERED, !.triggered_at = TRUE],
          notified |-> fault # "commit_notification",
          session |-> "ok"]

TgInit ==
    /\ tg_pc = "idle"
    /\ tg_held = <<>>
    /\ tg_i = 0
    /\ tg_rows = [a \in TgAlerts |->
                    [status |-> ACTIVE, triggered_at |-> FALSE, last_checked_at |-> FALSE]]
    /\ tg_notified = {}
    /\ tg_session = "ok"
    /\ tg_count = 0
    /\ tg_batch = {}
    /\ h_tg_fault = [a \in TgAlerts |-> "none"]
    /\ TopIdle
    /\ LiveIdle
    /\ McIdle
    /\ ApiIdle
    /\ MqIdle
    /\ FbIdle
    /\ PaceIdle
    /\ CkIdle
    /\ RestIdle
    /\ LimIdle
    /\ StIdle
    /\ RefIdle
    /\ SupIdle
    /\ PredIdle
    /\ StoreIdle
    /\ EvalIdle
    /\ SectorIdle

\* check_alerts up to the loop over active_alerts: the quotes decide which
\* conditions hold.
TgLoad ==
    /\ tg_pc = "idle"
    /\ tg_held' \in [TgAlerts -> BOOLEAN]
    /\ tg_i' = 1
    /\ tg_pc' = "loop"
    /\ UNCHANGED <<tg_rows, tg_notified, tg_session, tg_count, tg_batch, h_tg_fault>>
    /\ UNCHANGED <<limVars, stVars, refVars, supVars, topVars, liveVars, mcVars, apiVars, mqVars, fbVars, paceVars, ckVars, restVars>>
    /\ UNCHANGED <<predVars, storeVars, evalVars, histVars, sectorVars>>

\* One iteration of `for alert in active_alerts` (lines 181-217).  An
\* exception of check_condition or of the commit of last_checked_at reaches
\* the except clause of the loop body, which logs and continues without a
\* rollback.  _trigger_alert never raises, so triggered_count and
\* triggered_by_user are updated whenever the condition held.
TgAlert(fault) ==
    /\ tg_pc = "loop"
    /\ fault \in {"commit_status", "commit_notification"} => tg_held[tg_i]
    /\ LET a == tg_i
           triggers == tg_held[a] /\ fault # "predicate"
           t == TriggerAlert(tg_rows[a], tg_session, fault)
           row == IF triggers THEN t.row ELSE tg_rows[a]
           session == IF triggers THEN t.session ELSE tg_session
           commits == fault \notin {"predicate", "commit_checked"} /\ session = "ok"
       IN /\ h_tg_fault' = [h_tg_fault EXCEPT ![a] = fault]
          /\ tg_rows' = [tg_rows EXCEPT ![a] =
                           IF commits THEN [row EXCEPT !.last_checked_at = TRUE] ELSE row]
          /\ tg_notified' = IF triggers /\ t.notified THEN tg_notified \cup {a}
                            ELSE tg_notified
          /\ tg_count' = tg_count + (IF triggers THEN 1 ELSE 0)
          /\ tg_batch' = IF triggers THEN tg_batch \cup {a} ELSE tg_batch
          /\ IF fault = "commit_checked" /\ session = "ok"
             THEN tg_session' \in TgAfterFailedCommit
             ELSE tg_session' = session
    /\ IF tg_i = MaxTgAlerts
       THEN tg_pc' = "done" /\ tg_i' = 0
       ELSE tg_pc' = "loop" /\ tg_i' = tg_i + 1
    /\ UNCHANGED tg_held
    /\ UNCHANGED <<limVars, stVars, refVars, supVars, topVars, liveVars, mcVars, apiVars, mqVars, fbVars, paceVars, ckVars, restVars>>
    /\ UNCHANGED <<predVars, storeVars, evalVars, histVars, sectorVars>>

TgNext ==
    \/ TgLoad
    \/ \E fault \in TgFaults : TgAlert(fault)

SpecTrigger == TgInit /\ [][TgNext]_vars

\* C33: when the iteration of one alert raises, every alert whose own
\* iteration had no fault is still evaluated: it is triggered when its
\* condition holds and its last_checked_at is committed.
C33_ErrorConfined ==
    tg_pc = "done" =>
       \A b \in TgAlerts :
          h_tg_fault[b] = "none" =>
             /\ tg_rows[b].last_checked_at
             /\ tg_held[b] =>
                   /\ tg_rows[b].status = TRIGGERED
                   /\ b \in tg_notified

\* C36: after a tick an alert whose row the tick moved to triggered, or
\* stamped with triggered_at, has an in-app row of that tick; and
\* triggered_count and the email batch hold exactly the alerts whose trigger
\* is in the database.
C36_TriggerAtomic ==
    tg_pc = "done" =>
       /\ \A a \in TgAlerts :
             (tg_rows[a].status = TRIGGERED \/ tg_rows[a].triggered_at) =>
                a \in tg_notified
       /\ \A a \in tg_batch : tg_rows[a].status = TRIGGERED
       /\ tg_count = Cardinality({a \in TgAlerts : tg_rows[a].status = TRIGGERED})

(***************************************************************************)
(* The streamer's cache writes against the trades it received              *)
(***************************************************************************)
\* C34 as stated: every trade of a received trade frame is written, in list
\* order, and no other frame writes, so the cached live price of every symbol
\* named by a received trade is the price of the last such trade.
C34_LastTradeCached ==
    \A s \in DOMAIN h_st_trades.seen :
       /\ s \in DOMAIN st_live
       /\ h_st_trades.seen[s].any = Some(st_live[s])

\* What the loop keeps: the trades written are those that carry a symbol
\* and a price other than zero; the cached live price of a symbol is the
\* price of the last such trade received, and a symbol without one has no
\* entry.
LastPricedTradeCached ==
    /\ \A s \in DOMAIN h_st_trades.seen :
          IF h_st_trades.seen[s].priced = None
          THEN s \notin DOMAIN st_live
          ELSE s \in DOMAIN st_live /\ h_st_trades.seen[s].priced = Some(st_live[s])
    /\ DOMAIN st_live \subseteq DOMAIN h_st_trades.seen

(***************************************************************************)
(* SpecRest: create_alert, update_alert and delete_alert of api/alerts.py, *)
(* called by one user while the worker process runs ticks of check_alerts. *)
(* The handlers run in the API process, the ticks in the worker; they meet *)
(* in table alerts only.  Whether a predicate holds is drawn.              *)
(***************************************************************************)
\* settings.MAX_ALERTS_PER_USER is read from the environment (50 when it is
\* not set); the model runs with a small limit.
MAX_ALERTS_PER_USER == 2

\* Calls of create_alert that may be between their count and their commit.
MaxRequests == 2

MaxRestTicks == 2

\* The ids INSERT can give out.
RestIds == 1 .. (MAX_ALERTS_PER_USER + 1)

ActiveCount(tbl) == Cardinality({a \in DOMAIN tbl : tbl[a].status = ACTIVE})

\* The rows of a table without the row of id a.
Without(tbl, a) == [b \in DOMAIN tbl \ {a} |-> tbl[b]]

\* The rows of a table and one more.
With(tbl, a, row) == [b \in DOMAIN tbl \cup {a} |-> IF b = a THEN row ELSE tbl[b]]

\* The ids from i on of the rows with status active, in id order.
RECURSIVE RestLoadActive(_, _)
RestLoadActive(tbl, i) ==
    IF i > MAX_ALERTS_PER_USER + 1 THEN <<>>
    ELSE IF i \in DOMAIN tbl /\ tbl[i].status = ACTIVE
         THEN <<i>> \o RestLoadActive(tbl, i + 1)
         ELSE RestLoadActive(tbl, i + 1)

\* create_alert, lines 96-106: the count of the user's active alerts passes
\* the limit check.
LimitReached(count) == count >= MAX_ALERTS_PER_USER

RestInit ==
    /\ RestIdle
    /\ TopIdle
    /\ LiveIdle
    /\ McIdle
    /\ ApiIdle
    /\ MqIdle
    /\ FbIdle
    /\ PaceIdle
    /\ CkIdle
    /\ TgIdle
    /\ LimIdle
    /\ StIdle
    /\ RefIdle
    /\ SupIdle
    /\ PredIdle
    /\ StoreIdle
    /\ EvalIdle
    /\ SectorIdle

CreateAlertCount ==
    /\ rest_passed < MaxRequests
    /\ rest_next_id + rest_passed <= MAX_ALERTS_PER_USER + 1
    /\ ~LimitReached(ActiveCount(rest_alerts))
    /\ rest_passed' = rest_passed + 1
    /\ UNCHANGED <<rest_alerts, rest_next_id, rest_pc, rest_loaded, rest_i,
                   rest_notifications, rest_ticks, h_rest_fired>>
    /\ UNCHANGED <<limVars, stVars, refVars, supVars, topVars, liveVars, mcVars, apiVars, mqVars, fbVars, paceVars, ckVars, tgVars>>
    /\ UNCHANGED <<predVars, storeVars, evalVars, histVars, sectorVars>>

\* create_alert, lines 108-126: the new row is added and committed.
CreateAlertInsert(is_repeating) ==
    /\ rest_passed > 0
    /\ rest_alerts' = With(rest_alerts, rest_next_id,
                           [status |-> ACTIVE, is_repeating |-> is_repeating])
    /\ rest_next_id' = rest_next_id + 1
    /\ rest_passed' = rest_passed - 1
    /\ UNCHANGED <<rest_pc, rest_loaded, rest_i, rest_notifications, rest_ticks,
                   h_rest_fired>>
    /\ UNCHANGED <<limVars, stVars, refVars, supVars, topVars, liveVars, mcVars, apiVars, mqVars, fbVars, paceVars, ckVars, tgVars>>
    /\ UNCHANGED <<predVars, storeVars, evalVars, histVars, sectorVars>>

\* update_alert with a status in the body: setattr(alert, "status", value)
\* and commit; 404 when the row is not there.
UpdateAlert(a, status) ==
    /\ a \in DOMAIN rest_alerts
    /\ rest_alerts' = [rest_alerts EXCEPT ![a].status = status]
    /\ UNCHANGED <<rest_next_id, rest_passed, rest_pc, rest_loaded, rest_i,
                   rest_notifications, rest_ticks, h_rest_fired>>
    /\ UNCHANGED <<limVars, stVars, refVars, supVars, topVars, liveVars, mcVars, apiVars, mqVars, fbVars, paceVars, ckVars, tgVars>>
    /\ UNCHANGED <<predVars, storeVars, evalVars, histVars, sectorVars>>

\* delete_alert: db.delete(alert) and commit; 404 when the row is not there.
DeleteAlert(a) ==
    /\ a \in DOMAIN rest_alerts
    /\ rest_alerts' = Without(rest_alerts, a)
    /\ UNCHANGED <<rest_next_id, rest_passed, rest_pc, rest_loaded, rest_i,
                   rest_notifications, rest_ticks, h_rest_fired>>
    /\ UNCHANGED <<limVars, stVars, refVars, supVars, topVars, liveVars, mcVars, apiVars, mqVars, fbVars, paceVars, ckVars, tgVars>>
    /\ UNCHANGED <<predVars, storeVars, evalVars, histVars, sectorVars>>

\* check_alerts, lines 146-151: the query of the active alerts; with none
\* the tick returns.  The quotes are built between this step and the loop.
RestTickLoad ==
    /\ rest_pc = "idle"
    /\ rest_ticks < MaxRestTicks
    /\ LET loaded == RestLoadActive(rest_alerts, 1)
       IN IF loaded = <<>>
          THEN /\ rest_ticks' = rest_ticks + 1
               /\ UNCHANGED <<rest_pc, rest_loaded, rest_i>>
          ELSE /\ rest_loaded' = loaded
               /\ rest_i' = 1
               /\ rest_pc' = "eval"
               /\ UNCHANGED rest_ticks
    /\ UNCHANGED <<rest_alerts, rest_next_id, rest_passed, rest_notifications,
                   h_rest_fired>>
    /\ UNCHANGED <<limVars, stVars, refVars, supVars, topVars, liveVars, mcVars, apiVars, mqVars, fbVars, paceVars, ckVars, tgVars>>
    /\ UNCHANGED <<predVars, storeVars, evalVars, histVars, sectorVars>>

\* One iteration of `for alert in active_alerts` (lines 181-217) with
\* _trigger_alert.  The loop body reads alert.symbol and the fields
\* check_condition uses, never alert.status.  The row of a deleted alert
\* cannot be reloaded or updated: the exception is caught, _trigger_alert
\* rolls back, and the store is left as it was.  Of the row a trigger
\* writes (triggered_at, trigger_price, status) the model carries the status.
RestEvalAlert(held) ==
    /\ rest_pc = "eval"
    /\ LET a == rest_loaded[rest_i]
           fires == held /\ a \in DOMAIN rest_alerts
       IN /\ rest_alerts' =
               IF fires
               THEN [rest_alerts EXCEPT
                       ![a].status = IF rest_alerts[a].is_repeating
                                     THEN rest_alerts[a].status ELSE TRIGGERED]
               ELSE rest_alerts
          /\ rest_notifications' =
               IF fires THEN rest_notifications \cup {a} ELSE rest_notifications
          /\ h_rest_fired' =
               IF fires
               THEN h_rest_fired \cup {rest_alerts[a].status}
               ELSE h_rest_fired
    /\ IF rest_i = Len(rest_loaded)
       THEN /\ rest_pc' = "idle"
            /\ rest_loaded' = <<>>
            /\ rest_i' = 0
            /\ rest_ticks' = rest_ticks + 1
       ELSE /\ rest_i' = rest_i + 1
            /\ UNCHANGED <<rest_pc, rest_loaded, rest_ticks>>
    /\ UNCHANGED <<rest_next_id, rest_passed>>
    /\ UNCHANGED <<limVars, stVars, refVars, supVars, topVars, liveVars, mcVars, apiVars, mqVars, fbVars, paceVars, ckVars, tgVars>>
    /\ UNCHANGED <<predVars, storeVars, evalVars, histVars, sectorVars>>

RestNext ==
    \/ CreateAlertCount
    \/ \E is_repeating \in BOOLEAN : CreateAlertInsert(is_repeating)
    \/ \E a \in RestIds, status \in AlertStatus : UpdateAlert(a, status)
    \/ \E a \in RestIds : DeleteAlert(a)
    \/ RestTickLoad
    \/ \E held \in BOOLEAN : RestEvalAlert(held)

SpecRest == RestInit /\ [][RestNext]_vars

\* C37: check_alerts triggers no alert that the user disabled after the tick
\* loaded its list and before the alert is processed: no _trigger_alert
\* commits a status update and a Notification for a row it finds disabled.
C37_NoTriggerOnceInactive ==
    DISABLED \notin h_rest_fired

\* C39: the user's alerts with status active are never more than
\* MAX_ALERTS_PER_USER.
C39_ActiveLimit ==
    ActiveCount(rest_alerts) <= MAX_ALERTS_PER_USER

(***************************************************************************)
(* SpecSubscribeFair: the streamer while rows are added to the tables its  *)
(* enumeration reads                                                       *)
(***************************************************************************)
\* create_alert, or a stock added to a sector, commits a row with symbol s
\* while the streamer holds a connection that does not subscribe s.
StAdded(s) ==
    /\ st_pc \in {"subscribe", "recv"}
    /\ s \notin st_active_symbols
    /\ s \notin st_added
    /\ st_added' = st_added \cup {s}
    /\ UNCHANGED <<st_pc, st_active_symbols, st_to_send, st_sent, st_inbox, st_live,
                   st_connects, h_st_wrote, h_st_trades>>
    /\ UNCHANGED <<limVars, refVars, supVars, extVars>>
    /\ UNCHANGED <<predVars, storeVars, evalVars, histVars, sectorVars>>

StAddNext ==
    \/ StNext
    \/ \E s \in UNION StDbSymbolSets : StAdded(s)

\* The event loop's scheduling, as in SpecStreamerFair, except that nothing
\* makes recv() return: the vendor may send nothing and keep the connection
\* open for ever.  Each send of the subscribe loop returns or raises, and
\* recv() returns a frame that has arrived.
SpecSubscribeFair ==
    /\ StInit
    /\ [][StAddNext]_vars
    /\ WF_vars(StSleep)
    /\ WF_vars(StTop)
    /\ WF_vars(StConnect)
    /\ WF_vars(\E s \in INDEXES \cup UNION StDbSymbolSets :
                  StSubscribe(s) \/ (st_pc = "subscribe" /\ StClosed))
    /\ WF_vars(StRecv)

\* C38: a symbol whose row is added while the streamer is connected is
\* eventually subscribed on the connection, unless the connection closes
\* first.  (The sets of the model stay below the cap of 50 symbols.)
C38_AddedSymbolSubscribed ==
    \A s \in UNION StDbSymbolSets :
       (s \in st_added /\ st_pc \in {"subscribe", "recv"})
          ~> (s \in Range(st_sent) \/ st_pc \notin {"subscribe", "recv"})

====
